---- MODULE Spec2Model ----
(***************************************************************************)
(* payload-cloudinary: the storage adapter's static handler, delete        *)
(* handler and upload handler as state machines over a remote asset store. *)
(* Strings are sequences of one-character strings, so that the path and    *)
(* regular-expression operations of the code are computed, not assumed.    *)
(***************************************************************************)
EXTENDS Integers, Sequences, FiniteSets, TLC

(***************************************************************************)
(* Bounds of the model.                                                    *)
(***************************************************************************)
\* Date.now() readings range over 1..MaxClock
MaxClock == 2
\* byte lengths of the fetched bodies range over 0..MaxBlobSize
MaxBlobSize == 1

(***************************************************************************)
(* String helpers (JavaScript String / RegExp semantics).                  *)
(***************************************************************************)
UpperChars == <<"A","B","C","D","E","F","G","H","I","J","K","L","M",
                "N","O","P","Q","R","S","T","U","V","W","X","Y","Z">>
LowerChars == <<"a","b","c","d","e","f","g","h","i","j","k","l","m",
                "n","o","p","q","r","s","t","u","v","w","x","y","z">>
DigitChars == <<"0","1","2","3","4","5","6","7","8","9">>

\* String.prototype.toLowerCase on one character
LowerChar(c) ==
    IF \E i \in 1..26 : UpperChars[i] = c
    THEN LowerChars[CHOOSE i \in 1..26 : UpperChars[i] = c]
    ELSE c

toLowerCase(s) == [ i \in DOMAIN s |-> LowerChar(s[i]) ]

\* String(n) for a natural number n
RECURSIVE ToDigits(_)
ToDigits(n) ==
    IF n < 10 THEN << DigitChars[n + 1] >>
    ELSE ToDigits(n \div 10) \o << DigitChars[(n % 10) + 1] >>

\* s.includes(t)
StartsAt(s, t, i) ==
    /\ i + Len(t) - 1 <= Len(s)
    /\ \A k \in 1..Len(t) : s[i + k - 1] = t[k]

Includes(s, t) == \E i \in 1..(Len(s) + 1) : StartsAt(s, t, i)

\* s.split(t), for a non-empty separator t
RECURSIVE SplitFrom(_, _, _, _)
SplitFrom(s, t, i, start) ==
    IF i > Len(s) THEN << SubSeq(s, start, Len(s)) >>
    ELSE IF StartsAt(s, t, i)
         THEN << SubSeq(s, start, i - 1) >> \o SplitFrom(s, t, i + Len(t), i + Len(t))
         ELSE SplitFrom(s, t, i + 1, start)

Split(s, t) == SplitFrom(s, t, 1, 1)

\* index of the last occurrence of character c in s, 0 when there is none
LastIndexOf(s, c) ==
    IF \E i \in DOMAIN s : s[i] = c
    THEN CHOOSE i \in DOMAIN s : s[i] = c /\ \A j \in DOMAIN s : s[j] = c => j <= i
    ELSE 0

RECURSIVE JoinWith(_, _)
JoinWith(parts, sep) ==
    IF Len(parts) = 0 THEN << >>
    ELSE IF Len(parts) = 1 THEN parts[1]
    ELSE parts[1] \o sep \o JoinWith(Tail(parts), sep)

(***************************************************************************)
(* Node's path module (posix).                                             *)
(***************************************************************************)
\* normalizeString(path, allowAboveRoot, "/"): the segments that remain
RECURSIVE NormalizeSegments(_, _, _)
NormalizeSegments(segs, res, allowAboveRoot) ==
    IF Len(segs) = 0 THEN res
    ELSE LET seg == Head(segs)
             rest == Tail(segs)
         IN  IF seg = << >> \/ seg = <<".">>
             THEN NormalizeSegments(rest, res, allowAboveRoot)
             ELSE IF seg = <<".", ".">>
             THEN IF Len(res) > 0 /\ res[Len(res)] # <<".", ".">>
                  THEN NormalizeSegments(rest, SubSeq(res, 1, Len(res) - 1), allowAboveRoot)
                  ELSE IF allowAboveRoot
                       THEN NormalizeSegments(rest, Append(res, seg), allowAboveRoot)
                       ELSE NormalizeSegments(rest, res, allowAboveRoot)
             ELSE NormalizeSegments(rest, Append(res, seg), allowAboveRoot)

\* path.posix.normalize
Normalize(p) ==
    IF Len(p) = 0 THEN <<".">>
    ELSE LET isAbsolute == p[1] = "/"
             trailingSeparator == p[Len(p)] = "/"
             body == JoinWith(NormalizeSegments(Split(p, <<"/">>), << >>, ~isAbsolute), <<"/">>)
         IN  IF Len(body) = 0
             THEN IF isAbsolute THEN <<"/">>
                  ELSE IF trailingSeparator THEN <<".", "/">> ELSE <<".">>
             ELSE (IF isAbsolute THEN <<"/">> ELSE << >>)
                  \o body
                  \o (IF trailingSeparator THEN <<"/">> ELSE << >>)

\* path.posix.join(...parts)
RECURSIVE NonEmpty(_)
NonEmpty(parts) ==
    IF Len(parts) = 0 THEN << >>
    ELSE IF Len(Head(parts)) = 0 THEN NonEmpty(Tail(parts))
    ELSE << Head(parts) >> \o NonEmpty(Tail(parts))

PosixJoin(parts) ==
    IF Len(NonEmpty(parts)) = 0 THEN <<".">>
    ELSE Normalize(JoinWith(NonEmpty(parts), <<"/">>))

\* the last path component, trailing separators dropped
RECURSIVE DropTrailingSlashes(_)
DropTrailingSlashes(p) ==
    IF Len(p) > 0 /\ p[Len(p)] = "/"
    THEN DropTrailingSlashes(SubSeq(p, 1, Len(p) - 1))
    ELSE p

LastSegment(p) ==
    LET q == DropTrailingSlashes(p)
    IN  SubSeq(q, LastIndexOf(q, "/") + 1, Len(q))

\* path.extname
extname(p) ==
    LET seg == LastSegment(p)
        startDot == LastIndexOf(seg, ".")
    IN  IF startDot = 0 \/ startDot = 1 THEN << >>
        ELSE IF seg = <<".", ".">> THEN << >>
        ELSE SubSeq(seg, startDot, Len(seg))

EndsWith(s, t) == Len(t) <= Len(s) /\ SubSeq(s, Len(s) - Len(t) + 1, Len(s)) = t

\* path.basename(p, ext)
basename(p, ext) ==
    LET seg == LastSegment(p)
    IN  IF Len(ext) > 0 /\ seg # ext /\ EndsWith(seg, ext)
        THEN SubSeq(seg, 1, Len(seg) - Len(ext))
        ELSE seg

\* s.replace(/\.[^/.]+$/, ""): drops a final ".xyz" that holds no "/" or "."
StripExtension(s) ==
    LET d == LastIndexOf(s, ".")
    IN  IF d > 0 /\ d < Len(s) /\ \A k \in (d + 1)..Len(s) : s[k] # "/"
        THEN SubSeq(s, 1, d - 1)
        ELSE s

(***************************************************************************)
(* constants.ts: the extension tables, as the unit tests list them.        *)
(***************************************************************************)
IMAGE_EXTENSIONS ==
    { <<".","j","p","g">>,
      <<".","j","p","e","g">>,
      <<".","p","n","g">>,
      <<".","g","i","f">>,
      <<".","w","e","b","p">>,
      <<".","s","v","g">>,
      <<".","b","m","p">>,
      <<".","t","i","f","f">> }

VIDEO_EXTENSIONS ==
    { <<".","m","p","4">>,
      <<".","w","e","b","m">>,
      <<".","o","g","g">>,
      <<".","m","o","v">>,
      <<".","a","v","i">>,
      <<".","w","m","v">>,
      <<".","f","l","v">>,
      <<".","m","k","v">>,
      <<".","m","4","v">> }

RAW_EXTENSIONS ==
    { <<".","p","d","f">>,
      <<".","d","o","c">>,
      <<".","d","o","c","x">>,
      <<".","x","l","s">>,
      <<".","x","l","s","x">>,
      <<".","p","p","t">>,
      <<".","p","p","t","x">>,
      <<".","t","x","t">>,
      <<".","z","i","p">>,
      <<".","r","a","r">>,
      <<".","7","z">>,
      <<".","t","a","r">>,
      <<".","g","z">>,
      <<".","c","s","v">>,
      <<".","j","s","o","n">>,
      <<".","x","m","l">>,
      <<".","m","d">> }

\* utils.ts getResourceType: the argument is compared as it is given
getResourceType(ext) ==
    IF ext \in VIDEO_EXTENSIONS THEN "video"
    ELSE IF ext \in IMAGE_EXTENSIONS THEN "image"
    ELSE IF ext \in RAW_EXTENSIONS THEN "raw"
    ELSE "auto"

(***************************************************************************)
(* State.                                                                  *)
(***************************************************************************)
VARIABLES
    store,      \* the remote service: the public ids that exist there
    folder,     \* the adapter's base folder
    sh,         \* static handler: position and locals of the invocation
    calls,      \* external calls of the invocation in flight, in issue order
    response,   \* what the static handler answered; status 0 while none
    cfg,        \* the adapter's options: collection prefix, versioning, publicID
    data,       \* the document the upload handler is given and writes to
    up,         \* upload handler: position and locals of the invocation
    del,        \* delete handler: position and locals of the invocation
    uploads,    \* how many times upload_stream was called for the document
    plugin,     \* cloudinaryStorage: position, options and outcome of the call
    client,     \* the cloud the shared remote client is configured for
    adapters,   \* how many adapters (sets of handlers) have been created
    gen,        \* a call of generatePublicID: arguments and returned identifier
    san,        \* a string put through a sanitizer once and twice
    cls,        \* a call of getResourceType: argument and returned kind
    link,       \* a call of generateURL: arguments and returned URL
    race,       \* two upload invocations that run concurrently
    multi,      \* two adapters in one process and the requests they issue
    val         \* a call of validateFile: the file and the outcome

vars == << store, folder, sh, calls, response, cfg, data, up, del, uploads,
          plugin, client, adapters, gen, san, cls, link, race, multi, val >>
pluginvars == << plugin, client, adapters >>
morevars == << link, race, multi, val >>
purevars == << gen, san, cls, morevars >>
docvars == << cfg, data, up, del, uploads >>
staticvars == << sh, response >>

\* null / undefined where a string is expected
NullStr == <<"null">>

\* data.cloudinary before any upload wrote it
NoMetadata ==
    [ public_id |-> NullStr, resource_type |-> "none", format |-> NullStr,
      secure_url |-> NullStr, created_at |-> NullStr, version |-> NullStr,
      version_id |-> NullStr, pages |-> 0, selected_page |-> 0,
      thumbnail_url |-> NullStr ]

\* a document that has no file yet; versionsDefined tells [] from undefined
NoData ==
    [ prefix |-> << >>, filename |-> NullStr, cloudinary |-> NoMetadata,
      versionsDefined |-> FALSE, versions |-> << >> ]

\* the callback's result argument while there is none
NoUploadResult ==
    [ public_id |-> NullStr, resource_type |-> "none", format |-> NullStr,
      secure_url |-> NullStr, created_at |-> NullStr, version |-> 0,
      version_id |-> NullStr, pages |-> 0 ]

UpIdle ==
    [ pc |-> "idle", file |-> [ filename |-> << >>, buffer |-> 0 ],
      folderPath |-> << >>, publicIdValue |-> NullStr, resource_type |-> "auto",
      result |-> "none", error |-> "none", dataAtStart |-> NoData,
      apiResult |-> NoUploadResult ]

DelIdle ==
    [ pc |-> "idle", filename |-> << >>, publicId |-> << >>,
      result |-> "none", error |-> "none" ]

\* the options cloudinaryStorage is called with; collections counts the
\* collections of the host for which the adapter is instantiated
DefaultOptions ==
    [ enabled |-> TRUE,
      config |-> [ present |-> TRUE, cloud_name |-> <<"c">>, api_key |-> <<"k">>,
                   api_secret |-> <<"s">> ],
      folder |-> <<"m">>,
      collections |-> 1 ]

PluginIdle ==
    [ pc |-> "idle", options |-> DefaultOptions, remaining |-> 0,
      result |-> "none", error |-> "none" ]

\* no call of generatePublicID; keepRawExtension and kind are arguments of
\* the variant of handleUpload.ts that takes the resource type
GenIdle ==
    [ pc |-> "idle", variant |-> "none", filename |-> << >>, folderPath |-> << >>,
      resourceType |-> "auto",
      publicIDOptions |-> [ generatePublicID |-> "none", enabled |-> TRUE,
                            useFilename |-> TRUE, uniqueFilename |-> TRUE,
                            keepRawExtension |-> FALSE ],
      now |-> 0, id |-> NullStr ]

\* no string to sanitize
SanIdle ==
    [ pc |-> "idle", variant |-> "none", input |-> << >>, once |-> NullStr,
      twice |-> NullStr ]

\* no call of generateURL
UrlIdle == [ pc |-> "idle" ]

\* no concurrent uploads
RaceIdle == [ pc |-> "idle" ]

\* no second adapter
MultiIdle == [ pc |-> "idle" ]

\* no call of validateFile
ValIdle == [ pc |-> "idle" ]

\* no call of getResourceType
ClsIdle == [ pc |-> "idle", ext |-> << >>, kind |-> "none" ]

\* cloudinaryStorage has returned and one adapter serves one collection
PluginReady ==
    [ PluginIdle EXCEPT !.pc = "done", !.result = "returned" ]

(***************************************************************************)
(* The remote service and the upstream CDN, as the handlers see them.      *)
(***************************************************************************)
\* secure_url of a stored asset: scheme, host, cloud, "/upload/", version, id
SecureUrlBase ==
    <<"h","t","t","p","s",":","/","/","r","/","c","/","u","p","l","o","a","d","/","v","1","/">>

SecureUrl(id) == SecureUrlBase \o id

\* a delivery URL without an "/upload/" segment
SecureUrlNoUpload(id) == <<"h","t","t","p","s",":","/","/","r","/","c","/">> \o id

\* a delivery URL of an asset below a folder named upload
SecureUrlTwoUploads(id) == SecureUrlBase \o <<"u","p","l","o","a","d","/">> \o id

\* the secure_url values the remote service may report for a stored asset
DeliveryUrls(id) == { SecureUrl(id), SecureUrlNoUpload(id), SecureUrlTwoUploads(id) }

BlobTypes == { "application/pdf", "image/jpeg" }
Blobs == [ type : BlobTypes, size : 0..MaxBlobSize ]

\* the ETag header of an upstream response: absent, empty or a validator
UpstreamEtags == { NullStr, << >>, <<"e">> }

(***************************************************************************)
(* staticHandler.ts                                                        *)
(***************************************************************************)
NoResponse == [ status |-> 0, body |-> [ kind |-> "none" ], headers |-> << >>, thrown |-> FALSE ]

\* the attempts in the wrong order
AttemptsReversed(publicId) == << StripExtension(publicId), publicId >>

\* no second attempt
AttemptsNoFallback(publicId) == << publicId >>

\* a third attempt after the two
AttemptsThrice(publicId) == << publicId, StripExtension(publicId), publicId >>

\* fetchResource: the identifiers tried, in order
Attempts(publicId) == << publicId, StripExtension(publicId) >>

\* the transformation inserted whatever the request asks for
processResourceUrlAlways(url, isPdfThumbnail) ==
    LET urlParts == Split(url, <<"/","u","p","l","o","a","d","/">>)
    IN  IF Len(urlParts) = 2
        THEN urlParts[1]
             \o <<"/","u","p","l","o","a","d","/","p","g","_","1",",","f","_","j","p","g",",","q","_","a","u","t","o","/">>
             \o urlParts[2]
        ELSE url

\* processResourceUrl
processResourceUrl(url, isPdfThumbnail) ==
    IF ~isPdfThumbnail THEN url
    ELSE LET urlParts == Split(url, <<"/","u","p","l","o","a","d","/">>)
         IN  IF Len(urlParts) = 2
             THEN urlParts[1]
                  \o <<"/","u","p","l","o","a","d","/","p","g","_","1",",","f","_","j","p","g",",","q","_","a","u","t","o","/">>
                  \o urlParts[2]
             ELSE url

\* createBlobResponse
createBlobResponse(blob, etag) ==
    [ status  |-> 200,
      body    |-> [ kind |-> "blob", blob |-> blob ],
      headers |-> IF etag # NullStr /\ etag # << >>
                  THEN [ ContentType   |-> blob.type,
                         ContentLength |-> ToDigits(blob.size),
                         CacheControl  |-> "public, max-age=31536000",
                         ETag          |-> etag ]
                  ELSE [ ContentType   |-> blob.type,
                         ContentLength |-> ToDigits(blob.size),
                         CacheControl  |-> "public, max-age=31536000" ],
      thrown  |-> FALSE ]

\* new Response(null, { headers: { Content-Type, ETag }, status: 304 })
NotModifiedResponse(blob, etag) ==
    [ status  |-> 304,
      body    |-> [ kind |-> "none" ],
      headers |-> [ ContentType |-> blob.type, ETag |-> etag ],
      thrown  |-> FALSE ]

\* new Response(null, { status: 404, statusText: "Not Found" })
NotFoundResponse ==
    [ status |-> 404, body |-> [ kind |-> "none" ], headers |-> << >>, thrown |-> FALSE ]

\* the error is thrown on to the host instead of being answered
InternalErrorRethrown ==
    [ status |-> 0, body |-> [ kind |-> "none" ], headers |-> << >>, thrown |-> TRUE ]

\* new Response("Internal Server Error", { status: 500 })
InternalErrorResponse ==
    [ status  |-> 500,
      body    |-> [ kind |-> "text", text |-> "Internal Server Error" ],
      headers |-> << >>,
      thrown  |-> FALSE ]

\* response.headers.get("etag") || `"${Date.now()}"`
ResponseEtag(headerEtag, t) ==
    IF headerEtag # NullStr /\ headerEtag # << >>
    THEN headerEtag
    ELSE <<"\"">> \o ToDigits(t) \o <<"\"">>

\* any conditional request is answered as not modified
EtagMatchesAnyValidator(clientEtag, responseEtag) == clientEtag # NullStr

\* clientEtag === responseEtag
EtagMatches(clientEtag, responseEtag) == clientEtag = responseEtag

\* the catch block without its resource-not-found branch
CatchResponseNoNotFound(error) == InternalErrorResponse

\* the catch block of getHandler: what an exception raised in the try becomes
CatchResponse(error) ==
    IF error = "CloudinaryResourceError" THEN NotFoundResponse ELSE InternalErrorResponse

\* the answer once the body has been read
BlobResponse(blob, clientEtag, responseEtag) ==
    IF EtagMatches(clientEtag, responseEtag)
    THEN NotModifiedResponse(blob, responseEtag)
    ELSE createBlobResponse(blob, responseEtag)

\* inputs of the static handler
StaticFilenames ==
    { <<"a",".","p","d","f">>, <<"a",".","P","D","F">>, <<"b",".","j","p","g">>, <<"c">> }
Prefixes == { << >>, <<"p">> }
ClientEtags == { NullStr, <<"e">>, <<"\"","1","\"">> }
Folders == { <<"m">> }
StoreKeys ==
    { <<"m","/","a",".","p","d","f">>, <<"m","/","a">>, <<"m","/","b">>, <<"m","/","p","/","a">> }

ShIdle ==
    [ pc |-> "idle", filename |-> << >>, thumbnail |-> FALSE, ifNoneMatch |-> NullStr,
      prefix |-> << >>,
      publicId |-> << >>, resourceType |-> "auto", isPdfThumbnail |-> FALSE,
      i |-> 1, secure_url |-> NullStr, upstreamEtag |-> NullStr,
      responseEtag |-> NullStr, caught |-> "none" ]

LastCall == calls[Len(calls)]
SetOutcome(o) == [ calls EXCEPT ![Len(calls)].outcome = o ]

\* a request arrives
StaticRequest ==
    /\ sh.pc \in { "idle", "done" }
    /\ \E f \in StaticFilenames, th \in BOOLEAN, inm \in ClientEtags :
         sh' = [ ShIdle EXCEPT !.pc = "prefix", !.filename = f,
                               !.thumbnail = th, !.ifNoneMatch = inm ]
    /\ calls' = << >>
    /\ response' = NoResponse
    /\ UNCHANGED << store, folder, pluginvars, purevars, docvars >>

\* await getFilePrefix(...) returns; lines 89-99
PrefixResolved ==
    /\ sh.pc = "prefix"
    /\ \E prefix \in Prefixes :
         LET filePath == PosixJoin(<< folder, prefix, sh.filename >>)
             fileExt  == toLowerCase(extname(sh.filename))
         IN  sh' = [ sh EXCEPT !.pc = "lookup",
                               !.prefix = prefix,
                               !.publicId = filePath,
                               !.resourceType = getResourceType(fileExt),
                               !.isPdfThumbnail = (fileExt = <<".","p","d","f">> /\ sh.thumbnail),
                               !.i = 1 ]
    /\ UNCHANGED << store, folder, pluginvars, purevars, calls, response, docvars >>

\* await getFilePrefix(...) throws
PrefixThrows ==
    /\ sh.pc = "prefix"
    /\ sh' = [ sh EXCEPT !.pc = "done", !.caught = "Error" ]
    /\ response' = CatchResponse("Error")
    /\ UNCHANGED << store, folder, pluginvars, purevars, calls, docvars >>

\* fetchResource: cloudinary.api.resource(id, ...) is called for attempt i
LookupIssue ==
    /\ sh.pc = "lookup"
    /\ calls' = Append(calls, [ op |-> "getResource", arg |-> Attempts(sh.publicId)[sh.i],
                                kind |-> sh.resourceType, outcome |-> "pending" ])
    /\ sh' = [ sh EXCEPT !.pc = "lookupWait" ]
    /\ UNCHANGED << store, folder, pluginvars, purevars, response, docvars >>

\* the call returns a resource that has a secure_url
LookupFound ==
    /\ sh.pc = "lookupWait"
    /\ LastCall.arg \in store
    /\ calls' = SetOutcome("found")
    /\ \E u \in DeliveryUrls(LastCall.arg) :
         sh' = [ sh EXCEPT !.pc = "fetch", !.secure_url = u ]
    /\ UNCHANGED << store, folder, pluginvars, purevars, response, docvars >>

\* the call throws, or returns nothing with a secure_url: next attempt, or
\* CloudinaryResourceError once the attempts are exhausted
LookupFails ==
    /\ sh.pc = "lookupWait"
    /\ LastCall.arg \notin store
    /\ \E how \in { "threw", "nourl" } : calls' = SetOutcome(how)
    /\ IF sh.i < Len(Attempts(sh.publicId))
       THEN /\ sh' = [ sh EXCEPT !.pc = "lookup", !.i = sh.i + 1 ]
            /\ UNCHANGED response
       ELSE /\ sh' = [ sh EXCEPT !.pc = "done", !.caught = "CloudinaryResourceError" ]
            /\ response' = CatchResponse("CloudinaryResourceError")
    /\ UNCHANGED << store, folder, pluginvars, purevars, docvars >>

\* fetch(processedUrl) is called
FetchIssue ==
    /\ sh.pc = "fetch"
    /\ calls' = Append(calls, [ op |-> "fetch",
                                arg |-> processResourceUrl(sh.secure_url, sh.isPdfThumbnail),
                                kind |-> sh.resourceType, outcome |-> "pending" ])
    /\ sh' = [ sh EXCEPT !.pc = "fetchWait" ]
    /\ UNCHANGED << store, folder, pluginvars, purevars, response, docvars >>

\* the upstream answers 2xx
FetchOk ==
    /\ sh.pc = "fetchWait"
    /\ calls' = SetOutcome("ok")
    /\ \E e \in UpstreamEtags : sh' = [ sh EXCEPT !.pc = "blob", !.upstreamEtag = e ]
    /\ UNCHANGED << store, folder, pluginvars, purevars, response, docvars >>

\* the upstream answers non-2xx
FetchNotOk ==
    /\ sh.pc = "fetchWait"
    /\ calls' = SetOutcome("notok")
    /\ sh' = [ sh EXCEPT !.pc = "done" ]
    /\ response' = NotFoundResponse
    /\ UNCHANGED << store, folder, pluginvars, purevars, docvars >>

\* fetch rejects (network failure)
FetchThrows ==
    /\ sh.pc = "fetchWait"
    /\ calls' = SetOutcome("threw")
    /\ sh' = [ sh EXCEPT !.pc = "done", !.caught = "TypeError" ]
    /\ response' = CatchResponse("TypeError")
    /\ UNCHANGED << store, folder, pluginvars, purevars, docvars >>

\* await response.blob() returns; lines 119-142
BlobRead ==
    /\ sh.pc = "blob"
    /\ \E blob \in Blobs, t \in 1..MaxClock :
         LET responseEtag == ResponseEtag(sh.upstreamEtag, t)
         IN  /\ response' = BlobResponse(blob, sh.ifNoneMatch, responseEtag)
             /\ sh' = [ sh EXCEPT !.pc = "done", !.responseEtag = responseEtag ]
    /\ UNCHANGED << store, folder, pluginvars, purevars, calls, docvars >>

\* await response.blob() throws
BlobThrows ==
    /\ sh.pc = "blob"
    /\ sh' = [ sh EXCEPT !.pc = "done", !.caught = "Error" ]
    /\ response' = CatchResponse("Error")
    /\ UNCHANGED << store, folder, pluginvars, purevars, calls, docvars >>

StaticNext ==
    \/ StaticRequest
    \/ PrefixResolved
    \/ PrefixThrows
    \/ LookupIssue
    \/ LookupFound
    \/ LookupFails
    \/ FetchIssue
    \/ FetchOk
    \/ FetchNotOk
    \/ FetchThrows
    \/ BlobRead
    \/ BlobThrows

\* cloudinaryStorageInternal's defaults: no prefix, versioning off, no publicID
DefaultCfg ==
    [ prefix |-> << >>,
      versioning |-> [ enabled |-> FALSE, storeHistory |-> FALSE ],
      publicID |-> [ generatePublicID |-> "none", enabled |-> TRUE,
                     useFilename |-> TRUE, uniqueFilename |-> TRUE ] ]

StaticInit ==
    /\ store \in SUBSET StoreKeys
    /\ folder \in Folders
    /\ sh = ShIdle
    /\ calls = << >>
    /\ response = NoResponse
    /\ cfg = DefaultCfg
    /\ data = NoData
    /\ up = UpIdle
    /\ del = DelIdle
    /\ uploads = 0
    /\ plugin = PluginReady
    /\ client = <<"c">>
    /\ adapters = 1
    /\ gen = GenIdle
    /\ san = SanIdle
    /\ cls = ClsIdle
    /\ link = UrlIdle
    /\ race = RaceIdle
    /\ multi = MultiIdle
    /\ val = ValIdle

\* the static handler serving requests against a remote store
SpecStatic == StaticInit /\ [][StaticNext]_vars

(***************************************************************************)
(* Claims about the static handler, checked under SpecStatic.              *)
(***************************************************************************)
LookupFailed(c) == c.op = "getResource" /\ c.outcome \in { "threw", "nourl" }
LookupSucceeded(c) == c.op = "getResource" /\ c.outcome = "found"
Lookups == SelectSeq(calls, LAMBDA c : c.op = "getResource")
Fetches == SelectSeq(calls, LAMBDA c : c.op = "fetch")
PrefixWasResolved == sh.pc \notin { "idle", "prefix" } /\ sh.publicId # << >>
FullKey == PosixJoin(<< folder, sh.prefix, sh.filename >>)

\* C1: within one invocation the external calls are sequential and ordered:
\* the first call is getResource for the identifier that keeps the extension;
\* getResource for the extension-stripped identifier is issued only once the
\* first has returned as failed, never after it succeeded; fetch is issued
\* only directly after a lookup that returned a delivery URL, so never when
\* both lookups failed; no call is issued while another is pending.
C1_CallsAreOrdered ==
    /\ \A k \in 1..Len(calls) : calls[k].outcome = "pending" => k = Len(calls)
    /\ Len(calls) >= 1 =>
         /\ calls[1].op = "getResource"
         /\ calls[1].arg = PosixJoin(<< folder, sh.prefix, sh.filename >>)
         /\ EndsWith(calls[1].arg, sh.filename)
    /\ \A k \in 2..Len(calls) :
         calls[k].op = "getResource" =>
             /\ k = 2
             /\ LookupFailed(calls[1])
             /\ calls[2].arg = StripExtension(calls[1].arg)
    /\ \A k \in 1..Len(calls) :
         calls[k].op = "fetch" =>
             /\ k > 1
             /\ k = Len(calls)
             /\ LookupSucceeded(calls[k - 1])
    /\ Len(Lookups) <= 2
    /\ Len(Fetches) <= 1

\* C1 witness: the first lookup failed, the second succeeded, the fetch went out
C1_Witness ==
    /\ Len(calls) = 3
    /\ LookupFailed(calls[1])
    /\ LookupSucceeded(calls[2])
    /\ calls[2].arg # calls[1].arg
    /\ calls[3].op = "fetch"

OnlyStrippedKeyStored ==
    /\ PrefixWasResolved
    /\ StripExtension(FullKey) \in store
    /\ FullKey \notin store

SecondLookupServes ==
    /\ Len(Lookups) = 2
    /\ LookupFailed(calls[1])
    /\ calls[1].arg = FullKey
    /\ LookupSucceeded(calls[2])
    /\ calls[2].arg = StripExtension(FullKey)
    /\ Len(calls) = 3
    /\ calls[3].op = "fetch"
    /\ sh.secure_url \in DeliveryUrls(calls[2].arg)
    /\ calls[3].arg = processResourceUrl(sh.secure_url, sh.isPdfThumbnail)

BothLookupsFailed ==
    /\ Len(calls) = 2
    /\ LookupFailed(calls[1])
    /\ LookupFailed(calls[2])

FetchCameBackNon2xx ==
    /\ Len(calls) >= 2
    /\ LookupSucceeded(calls[Len(calls) - 1])
    /\ calls[Len(calls)].op = "fetch"
    /\ calls[Len(calls)].outcome = "notok"

\* C3: the handler answers 404 with an empty body, and does not throw, when
\* both lookups failed and when a lookup succeeded but the upstream fetch of
\* the delivery URL came back non-2xx.
C3_NotFoundIs404 ==
    (BothLookupsFailed \/ FetchCameBackNon2xx) =>
        /\ sh.pc = "done"
        /\ response.status = 404
        /\ response.body.kind = "none"
        /\ ~response.thrown

\* C3 witness: both lookups failed and the request is answered
C3_Witness ==
    /\ BothLookupsFailed
    /\ calls[1].arg # calls[2].arg
    /\ response.status = 404

BodyWasRead ==
    /\ sh.pc = "done"
    /\ Len(calls) >= 1
    /\ LastCall.op = "fetch"
    /\ LastCall.outcome = "ok"
    /\ sh.caught = "none"

\* C4: after a successful upstream fetch the answer is 304 with no body and
\* ETag = the resource's validator iff If-None-Match equals that validator;
\* otherwise it is 200 with the body and the headers Content-Type,
\* Content-Length, Cache-Control: public, max-age=31536000 and the same ETag.
C4_ConditionalRequest ==
    BodyWasRead =>
        /\ sh.upstreamEtag \notin { NullStr, << >> } => sh.responseEtag = sh.upstreamEtag
        /\ response.status = (IF sh.ifNoneMatch = sh.responseEtag THEN 304 ELSE 200)
        /\ response.headers.ETag = sh.responseEtag
        /\ ~response.thrown
        /\ response.status = 304 => response.body.kind = "none"
        /\ response.status = 200 =>
             /\ response.body.kind = "blob"
             /\ DOMAIN response.headers =
                    { "ContentType", "ContentLength", "CacheControl", "ETag" }
             /\ response.headers.ContentType = response.body.blob.type
             /\ response.headers.ContentLength = ToDigits(response.body.blob.size)
             /\ response.headers.CacheControl = "public, max-age=31536000"

\* C4 witness: a conditional request whose validator matched
C4_Witness ==
    /\ BodyWasRead
    /\ sh.ifNoneMatch = <<"e">>
    /\ response.status = 304

UnexpectedException == sh.pc = "done" /\ sh.caught \in { "Error", "TypeError" }

MAX_FILE_SIZE == 104857600
\* Cloudinary's limit on the length of a public id and of a folder path
MAX_ID_LENGTH == 255
\* sanitizeString keeps at most this many characters
SANITIZE_LIMIT == 100

\* file.buffer is the number of bytes; NoBuffer when there is no Buffer
NoBuffer == 0 - 1

Whitespace == { " ", "\t", "\n" }

\* !s || s.trim() === ''
IsBlank(s) == \A i \in DOMAIN s : s[i] \in Whitespace

AllowedExtensions == VIDEO_EXTENSIONS \cup IMAGE_EXTENSIONS \cup RAW_EXTENSIONS

SuspiciousSuffixes ==
    { <<".","p","h","p">>,
      <<".","e","x","e">>,
      <<".","s","c","r">>,
      <<".","b","a","t">>,
      <<".","c","o","m">>,
      <<".","p","i","f">>,
      <<".","v","b","s">>,
      <<".","j","s">>,
      <<".","j","a","r">> }

\* validateFile without the size check
validateFileNoSizeCheck(file, maxSize) ==
    IF IsBlank(file.filename) THEN "Valid filename is required"
    ELSE IF file.buffer = NoBuffer THEN "File buffer is required"
    ELSE IF file.buffer = 0 THEN "File cannot be empty"
    ELSE LET ext == toLowerCase(extname(file.filename))
         IN  IF ext = << >> THEN "File must have a valid extension"
             ELSE IF ext \notin AllowedExtensions THEN "File type is not supported"
             ELSE IF \/ Includes(file.filename, <<".", ".">>)
                     \/ Includes(file.filename, <<"/">>)
                     \/ Includes(file.filename, <<"\\">>)
                  THEN "Filename contains invalid characters"
             ELSE IF \E suffix \in SuspiciousSuffixes :
                         EndsWith(toLowerCase(file.filename), suffix)
                  THEN "File type is not allowed for security reasons"
             ELSE "ok"

\* validateFile: "ok", or the message of the FileValidationError it throws
validateFile(file, maxSize) ==
    IF IsBlank(file.filename) THEN "Valid filename is required"
    ELSE IF file.buffer = NoBuffer THEN "File buffer is required"
    ELSE IF file.buffer = 0 THEN "File cannot be empty"
    ELSE IF file.buffer > maxSize THEN "File size exceeds maximum allowed size"
    ELSE LET ext == toLowerCase(extname(file.filename))
         IN  IF ext = << >> THEN "File must have a valid extension"
             ELSE IF ext \notin AllowedExtensions THEN "File type is not supported"
             ELSE IF \/ Includes(file.filename, <<".", ".">>)
                     \/ Includes(file.filename, <<"/">>)
                     \/ Includes(file.filename, <<"\\">>)
                  THEN "Filename contains invalid characters"
             ELSE IF \E suffix \in SuspiciousSuffixes :
                         EndsWith(toLowerCase(file.filename), suffix)
                  THEN "File type is not allowed for security reasons"
             ELSE "ok"

InvalidIdChars == { "<", ">", ":", "\"", "\\", "|", "?", "*" }

\* validatePublicId: "ok", or the message of the ValidationError it throws
validatePublicId(publicId) ==
    IF publicId = NullStr \/ publicId = << >> THEN "Public ID must be a non-empty string"
    ELSE IF Len(publicId) > MAX_ID_LENGTH THEN "Public ID cannot exceed 255 characters"
    ELSE IF \E i \in DOMAIN publicId : publicId[i] \in InvalidIdChars
         THEN "Public ID contains invalid characters"
    ELSE "ok"

IsLowerAlnum(c) ==
    \/ \E i \in 1..26 : LowerChars[i] = c
    \/ \E i \in 1..10 : DigitChars[i] = c

\* .replace(/-+/g, "-")
CollapseHyphens(s) ==
    LET withPrev == [ i \in DOMAIN s |-> << s[i], IF i = 1 THEN "" ELSE s[i - 1] >> ]
        FirstOfRun(p) == ~(p[1] = "-" /\ p[2] = "-")
        kept == SelectSeq(withPrev, FirstOfRun)
    IN  [ i \in DOMAIN kept |-> kept[i][1] ]

\* .replace(/^-|-$/g, "")
TrimHyphens(s) ==
    LET a == IF Len(s) > 0 /\ s[1] = "-" THEN Tail(s) ELSE s
    IN  IF Len(a) > 0 /\ a[Len(a)] = "-" THEN SubSeq(a, 1, Len(a) - 1) ELSE a

\* sanitizeString
sanitizeString(input) ==
    LET lower    == toLowerCase(input)
        replaced == [ i \in DOMAIN lower |-> IF IsLowerAlnum(lower[i]) THEN lower[i] ELSE "-" ]
        trimmed  == TrimHyphens(CollapseHyphens(replaced))
    IN  SubSeq(trimmed, 1, IF Len(trimmed) < SANITIZE_LIMIT THEN Len(trimmed) ELSE SANITIZE_LIMIT)

(***************************************************************************)
(* handleUpload.ts                                                         *)
(***************************************************************************)
\* handleUpload.ts sanitizeForPublicID
sanitizeForPublicID(str) == sanitizeString(str)

\* path.dirname
dirname(p) ==
    IF Len(p) = 0 THEN <<".">>
    ELSE LET q == DropTrailingSlashes(p)
             i == LastIndexOf(q, "/")
         IN  IF Len(q) = 0 THEN <<"/">>
             ELSE IF i = 0 THEN <<".">>
             ELSE IF i = 1 THEN <<"/">>
             ELSE SubSeq(q, 1, i - 1)

\* the caller-supplied publicID.generatePublicID functions of the model
CustomGenerator(g, filename, prefix, folderName) ==
    CASE g = "template" -> <<"c","u","s","t","o","m","/">> \o folderName \o <<"/">> \o prefix
                             \o <<"/">> \o filename \o <<"-","c","u","s","t","o","m">>
      [] g = "query"    -> filename \o <<"?">>
      [] g = "empty"    -> << >>

\* generatePublicID; t is the reading of Date.now()
generatePublicID(filename, folderPath, publicIDOptions, t) ==
    IF publicIDOptions.generatePublicID # "none"
    THEN CustomGenerator(publicIDOptions.generatePublicID, filename,
                         dirname(folderPath), basename(folderPath, << >>))
    ELSE IF ~publicIDOptions.enabled
    THEN PosixJoin(<< folderPath,
                      sanitizeForPublicID(basename(filename, extname(filename))) >>)
    ELSE LET timestamp == IF publicIDOptions.uniqueFilename
                          THEN <<"_">> \o ToDigits(t) ELSE << >>
         IN  IF publicIDOptions.useFilename
             THEN PosixJoin(<< folderPath,
                               sanitizeForPublicID(basename(filename, extname(filename)))
                                   \o timestamp >>)
             ELSE PosixJoin(<< folderPath, <<"m","e","d","i","a">> \o timestamp >>)

\* isPDF
isPDF(filename) == toLowerCase(extname(filename)) = <<".","p","d","f">>

\* getUploadOptions: the resource_type sent with the upload
UploadResourceType(filename) == getResourceType(toLowerCase(extname(filename)))

\* folderPath of getHandleUpload
FolderPath(d) ==
    IF d.prefix # << >> /\ d.prefix # NullStr
    THEN PosixJoin(<< folder, d.prefix >>)
    ELSE PosixJoin(<< folder, cfg.prefix >>)

\* calls of upload_stream for the one document
MaxUploads == 2

\* result.version as the remote reports it; 0 stands for a result without one
ResultVersions == { 0, 1 }
\* pages as the remote reports them for a PDF; 0 stands for none reported
ResultPages == { 0, 2 }

\* inputs of the upload handler: two files that pass validateFile, one of them
\* of exactly the size allowed, and one file for each way of failing it
UploadFiles ==
    { [ filename |-> <<"a",".","p","d","f">>, buffer |-> 1 ],
      [ filename |-> <<"B",".","J","P","G">>, buffer |-> MAX_FILE_SIZE ],
      [ filename |-> <<" ">>, buffer |-> 1 ],
      [ filename |-> <<"a",".","p","d","f">>, buffer |-> NoBuffer ],
      [ filename |-> <<"a",".","p","d","f">>, buffer |-> 0 ],
      [ filename |-> <<"a",".","p","d","f">>, buffer |-> MAX_FILE_SIZE + 1 ],
      [ filename |-> <<"c">>, buffer |-> 1 ],
      [ filename |-> <<"a",".","e","x","e">>, buffer |-> 1 ],
      [ filename |-> <<"a","/","b",".","p","n","g">>, buffer |-> 1 ] }
\* the prefix field of the document
DocPrefixes == { << >>, <<"p">> }

\* the adapter options of the model: the defaults, a fixed id under a
\* collection prefix, version history, ids switched off, and three
\* caller-supplied generators, two of which return an id that is not valid
AdapterConfigs ==
    { DefaultCfg,
      [ DefaultCfg EXCEPT !.prefix = <<"k">>, !.versioning.enabled = TRUE,
                          !.publicID.useFilename = FALSE,
                          !.publicID.uniqueFilename = FALSE ],
      [ DefaultCfg EXCEPT !.versioning = [ enabled |-> TRUE, storeHistory |-> TRUE ],
                          !.publicID.uniqueFilename = FALSE ],
      [ DefaultCfg EXCEPT !.publicID.enabled = FALSE ],
      [ DefaultCfg EXCEPT !.prefix = <<"k">>, !.publicID.generatePublicID = "template" ],
      [ DefaultCfg EXCEPT !.publicID.generatePublicID = "query" ],
      [ DefaultCfg EXCEPT !.publicID.generatePublicID = "empty" ] }

\* what cloudinary.uploader.upload_stream hands to the callback on success:
\* a result carries its stamp (created_at, version, version_id) or none of it,
\* and reports pages for a PDF only
UploadResults(id, requested, filename) ==
    { [ public_id |-> id, resource_type |-> k, format |-> NullStr,
        secure_url |-> SecureUrl(id),
        created_at |-> IF v = 0 THEN NullStr ELSE <<"T">>,
        version |-> v,
        version_id |-> IF v = 0 THEN NullStr ELSE <<"i">>,
        pages |-> pg ] :
        k  \in (IF requested = "auto" THEN { "image", "video", "raw" } ELSE { requested }),
        v  \in ResultVersions,
        pg \in (IF isPDF(filename) THEN ResultPages ELSE { 0 }) }

\* `https://res.cloudinary.com/${cloud_name}/image/upload/pg_1/q_auto,f_jpg/${public_id}.jpg`
ThumbnailUrl(publicId) ==
    <<"h","t","t","p","s",":","/","/","r","e","s",".","c","l","o","u","d","i","n","a","r","y",".","c","o","m","/","c","/","i","m","a","g","e","/","u","p","l","o","a","d","/","p","g","_","1","/","q","_","a","u","t","o",",","f","_","j","p","g","/">>
        \o publicId \o <<".", "j", "p", "g">>

\* baseMetadata and typeSpecificMetadata of the upload callback
Metadata(result, filename, pageCount) ==
    [ public_id     |-> result.public_id,
      resource_type |-> result.resource_type,
      format        |-> result.format,
      secure_url    |-> result.secure_url,
      created_at    |-> result.created_at,
      version       |-> IF result.version # 0 THEN ToDigits(result.version) ELSE NullStr,
      version_id    |-> result.version_id,
      pages         |-> IF result.resource_type \notin { "video", "image" } /\ isPDF(filename)
                        THEN pageCount ELSE 0,
      selected_page |-> IF result.resource_type \notin { "video", "image" } /\ isPDF(filename)
                        THEN 1 ELSE 0,
      thumbnail_url |-> IF result.resource_type \notin { "video", "image" } /\ isPDF(filename)
                        THEN ThumbnailUrl(result.public_id) ELSE NullStr ]

\* the record pushed on data.versions; t is the clock for new Date().toISOString()
VersionRecord(result, t) ==
    [ version    |-> IF result.version # 0 THEN ToDigits(result.version) ELSE << >>,
      version_id |-> IF result.version_id # NullStr THEN result.version_id ELSE << >>,
      created_at |-> IF result.created_at # NullStr THEN result.created_at
                     ELSE <<"T">> \o ToDigits(t),
      secure_url |-> IF result.secure_url # NullStr THEN result.secure_url ELSE << >> ]

\* the callback's writes with the history replaced by the new record
DataAfterUploadReplacesHistory(d, result, filename, pageCount, versioning, t) ==
    [ d EXCEPT !.cloudinary = Metadata(result, filename, pageCount),
               !.versionsDefined = d.versionsDefined
                                     \/ (versioning.enabled /\ versioning.storeHistory),
               !.versions = IF versioning.enabled /\ versioning.storeHistory
                            THEN << VersionRecord(result, t) >>
                            ELSE d.versions ]

\* the callback's writes to data on success; lines 307-323
DataAfterUpload(d, result, filename, pageCount, versioning, t) ==
    [ d EXCEPT !.cloudinary = Metadata(result, filename, pageCount),
               !.versionsDefined = d.versionsDefined
                                     \/ (versioning.enabled /\ versioning.storeHistory),
               !.versions = IF versioning.enabled /\ versioning.storeHistory
                            THEN Append(d.versions, VersionRecord(result, t))
                            ELSE d.versions ]

\* one invocation at a time works on the document; an invocation that starts
\* leaves nothing of the other handler's last one
DocHandlersIdle == up.pc \in { "idle", "done" } /\ del.pc \in { "idle", "done" }

\* the locals of getHandleUpload up to the Promise, for a file, the document
\* and a clock reading
UploadLocals(file, d, t) ==
    [ UpIdle EXCEPT !.file = file,
                    !.folderPath = FolderPath(d),
                    !.publicIdValue = generatePublicID(file.filename, FolderPath(d),
                                                       cfg.publicID, t),
                    !.resource_type = UploadResourceType(file.filename),
                    !.dataAtStart = d ]

\* validateFile(file, { maxSize: 100 * 1024 * 1024 }) for each file of the
\* model: "ok" or the message of the error thrown; lines 189-192
FileVerdict == [ file \in UploadFiles |-> validateFile(file, MAX_FILE_SIZE) ]

\* validateFile throws: the handler rejects; lines 187-192, 345-348
UploadRejectedByFile ==
    /\ DocHandlersIdle
    /\ \E file \in UploadFiles :
         \E fileVerdict \in { FileVerdict[file] } :
            /\ fileVerdict # "ok"
            /\ up' = [ UpIdle EXCEPT !.pc = "done", !.file = file, !.dataAtStart = data,
                                     !.result = "rejected", !.error = fileVerdict ]
    /\ calls' = << >>
    /\ del' = DelIdle
    /\ UNCHANGED << store, folder, pluginvars, purevars, staticvars, cfg, data, uploads >>

\* validatePublicId throws: the handler rejects; lines 194-208, 345-348
UploadRejectedByPublicId ==
    /\ DocHandlersIdle
    /\ \E file \in UploadFiles, t \in 1..MaxClock :
         /\ FileVerdict[file] = "ok"
         /\ \E locals \in { UploadLocals(file, data, t) } :
              \E idVerdict \in { validatePublicId(locals.publicIdValue) } :
                 /\ idVerdict # "ok"
                 /\ up' = [ locals EXCEPT !.pc = "done", !.result = "rejected",
                                          !.error = idVerdict ]
    /\ calls' = << >>
    /\ del' = DelIdle
    /\ UNCHANGED << store, folder, pluginvars, purevars, staticvars, cfg, data, uploads >>

\* the file and the public id are valid and upload_stream is called; lines 187-231, 331
UploadIssued ==
    /\ DocHandlersIdle
    /\ uploads < MaxUploads
    /\ \E file \in UploadFiles, t \in 1..MaxClock :
         /\ FileVerdict[file] = "ok"
         /\ \E locals \in { UploadLocals(file, data, t) } :
              /\ validatePublicId(locals.publicIdValue) = "ok"
              /\ up' = [ locals EXCEPT !.pc = "uploading" ]
              /\ calls' = << [ op |-> "upload_stream", arg |-> locals.publicIdValue,
                               kind |-> locals.resource_type, outcome |-> "pending" ] >>
    /\ del' = DelIdle
    /\ uploads' = uploads + 1
    /\ UNCHANGED << store, folder, pluginvars, purevars, staticvars, cfg, data >>

\* upload_stream or uploadStream.end throws synchronously; lines 332-343
UploadStreamThrows ==
    /\ up.pc = "uploading"
    /\ LastCall.outcome = "pending"
    /\ calls' = SetOutcome("threw")
    /\ up' = [ up EXCEPT !.pc = "done", !.result = "rejected",
                         !.error = "Error in upload process" ]
    /\ UNCHANGED << store, folder, pluginvars, purevars, staticvars, cfg, uploads, del, data >>

\* the callback's error branch writing a stub into the document
UploadFailsPartialWrite ==
    /\ up.pc = "uploading"
    /\ LastCall.outcome = "pending"
    /\ calls' = SetOutcome("error")
    /\ up' = [ up EXCEPT !.pc = "done", !.result = "rejected",
                         !.error = "Failed to upload file to Cloudinary" ]
    /\ data' = [ data EXCEPT !.cloudinary.public_id = up.publicIdValue ]
    /\ UNCHANGED << store, folder, pluginvars, purevars, staticvars, cfg, uploads, del >>

\* the callback is given an error; lines 233-246
UploadFails ==
    /\ up.pc = "uploading"
    /\ LastCall.outcome = "pending"
    /\ calls' = SetOutcome("error")
    /\ up' = [ up EXCEPT !.pc = "done", !.result = "rejected",
                         !.error = "Failed to upload file to Cloudinary" ]
    /\ UNCHANGED << store, folder, pluginvars, purevars, staticvars, cfg, uploads, del, data >>

\* the callback is given neither an error nor a result; lines 248, 326
UploadNoResult ==
    /\ up.pc = "uploading"
    /\ LastCall.outcome = "pending"
    /\ calls' = SetOutcome("empty")
    /\ up' = [ up EXCEPT !.pc = "done", !.result = "resolved" ]
    /\ UNCHANGED << store, folder, pluginvars, purevars, staticvars, cfg, uploads, del, data >>

NeedsPageCount(result, filename) ==
    /\ result.resource_type \notin { "video", "image" }
    /\ isPDF(filename)
    /\ result.pages = 0

\* the callback is given a result and needs no page count from the API:
\* the document is written and the promise resolves; lines 248-326.  The host
\* keeps the file's name in the resolved document, which is what it hands to
\* the delete handler later.
UploadSucceeds ==
    /\ up.pc = "uploading"
    /\ LastCall.outcome = "pending"
    /\ \E result \in UploadResults(up.publicIdValue, up.resource_type, up.file.filename), t \in 1..MaxClock :
         /\ ~NeedsPageCount(result, up.file.filename)
         /\ data' = [ DataAfterUpload(data, result, up.file.filename, result.pages,
                                      cfg.versioning, t)
                      EXCEPT !.filename = up.file.filename ]
         /\ up' = [ up EXCEPT !.pc = "done", !.result = "resolved",
                              !.apiResult = result ]
    /\ calls' = SetOutcome("ok")
    /\ store' = store \cup { up.publicIdValue }
    /\ UNCHANGED << folder, pluginvars, purevars, staticvars, cfg, uploads, del >>

\* the callback is given the result of a PDF without pages: getPDFPageCount
\* asks cloudinary.api.resource; lines 287-297, 155-160
UploadSucceedsAsksPages ==
    /\ up.pc = "uploading"
    /\ LastCall.outcome = "pending"
    /\ \E result \in UploadResults(up.publicIdValue, up.resource_type, up.file.filename) :
         /\ NeedsPageCount(result, up.file.filename)
         /\ up' = [ up EXCEPT !.pc = "pageCount", !.apiResult = result ]
    /\ calls' = Append(SetOutcome("ok"),
                       [ op |-> "getResource", arg |-> up.publicIdValue,
                         kind |-> "raw", outcome |-> "pending" ])
    /\ store' = store \cup { up.publicIdValue }
    /\ UNCHANGED << folder, pluginvars, purevars, staticvars, cfg, uploads, del, data >>

\* getPDFPageCount returns (the API's pages, or the default 1 when the call
\* threw or reported none); the document is written; lines 162-174, 299-326
PageCountReturns ==
    /\ up.pc = "pageCount"
    /\ \E pages \in ResultPages, t \in 1..MaxClock :
         LET pageCount == IF pages > 0 THEN pages ELSE 1
         IN  /\ calls' = SetOutcome(IF pages > 0 THEN "found" ELSE "threw")
             /\ data' = [ DataAfterUpload(data, up.apiResult, up.file.filename, pageCount,
                                          cfg.versioning, t)
                          EXCEPT !.filename = up.file.filename ]
             /\ up' = [ up EXCEPT !.pc = "done", !.result = "resolved" ]
    /\ UNCHANGED << store, folder, pluginvars, purevars, staticvars, cfg, uploads, del >>

(***************************************************************************)
(* handleDelete.ts                                                         *)
(***************************************************************************)
\* what cloudinary.uploader.destroy reports for an asset that is not there
MissingResults == { "not found", "already deleted" }

\* the branches on result.result: resolve, or throw CloudinaryDeleteError
DeleteOutcome(result) ==
    IF result = "ok" THEN "resolved"
    ELSE IF result = "not found" THEN "resolved"
    ELSE "rejected"

\* the public id handed to destroy; lines 17-20
DeletePublicId(filename) == StripExtension(PosixJoin(<< folder, filename >>))

\* the host deletes a document that has a file: destroy is called; lines 15-28
DeleteIssued ==
    /\ DocHandlersIdle
    /\ data.filename # NullStr
    /\ del' = [ DelIdle EXCEPT !.pc = "destroying", !.filename = data.filename,
                               !.publicId = DeletePublicId(data.filename) ]
    /\ calls' = << [ op |-> "destroy", arg |-> DeletePublicId(data.filename),
                     kind |-> "unset", outcome |-> "pending" ] >>
    /\ up' = UpIdle
    /\ UNCHANGED << store, folder, pluginvars, purevars, staticvars, cfg, data, uploads >>

\* destroy returns: "ok" for a stored asset, which is gone afterwards, one of
\* the missing results otherwise, or a result the handler does not know
DestroyReturns ==
    /\ del.pc = "destroying"
    /\ \E result \in { "ok", "error" } \cup MissingResults :
         /\ result = "ok" <=> del.publicId \in store
         /\ calls' = SetOutcome(result)
         /\ del' = [ del EXCEPT !.pc = "done", !.result = DeleteOutcome(result),
                                !.error = IF DeleteOutcome(result) = "rejected"
                                          THEN "CloudinaryDeleteError" ELSE "none" ]
    /\ store' = store \ { del.publicId }
    /\ UNCHANGED << folder, pluginvars, purevars, staticvars, cfg, uploads, data, up >>

\* destroy throws: the error is wrapped, logged and thrown; lines 50-67
DestroyThrows ==
    /\ del.pc = "destroying"
    /\ calls' = SetOutcome("threw")
    /\ del' = [ del EXCEPT !.pc = "done", !.result = "rejected",
                           !.error = "CloudinaryDeleteError" ]
    /\ UNCHANGED << store, folder, pluginvars, purevars, staticvars, cfg, uploads, data, up >>

DocNext ==
    \/ UploadRejectedByFile
    \/ UploadRejectedByPublicId
    \/ UploadIssued
    \/ UploadStreamThrows
    \/ UploadFails
    \/ UploadNoResult
    \/ UploadSucceeds
    \/ UploadSucceedsAsksPages
    \/ PageCountReturns
    \/ DeleteIssued
    \/ DestroyReturns
    \/ DestroyThrows

DocInit ==
    /\ store = { }
    /\ folder \in Folders
    /\ sh = ShIdle
    /\ calls = << >>
    /\ response = NoResponse
    /\ cfg \in AdapterConfigs
    /\ data \in { [ NoData EXCEPT !.prefix = p ] : p \in DocPrefixes }
    /\ up = UpIdle
    /\ del = DelIdle
    /\ uploads = 0
    /\ plugin = PluginReady
    /\ client = <<"c">>
    /\ adapters = 1
    /\ gen = GenIdle
    /\ san = SanIdle
    /\ cls = ClsIdle
    /\ link = UrlIdle
    /\ race = RaceIdle
    /\ multi = MultiIdle
    /\ val = ValIdle

\* uploads and deletes of one document through one adapter
SpecDoc == DocInit /\ [][DocNext]_vars

(***************************************************************************)
(* The delete handler's contract.                                          *)
(***************************************************************************)
\* the delete invocation has ended and this is what destroy reported
DestroyReported(results) ==
    /\ del.pc = "done"
    /\ LastCall.op = "destroy"
    /\ LastCall.outcome \in results

\* C6 as stated: a delete whose destroy call reported 'ok', 'not found' or
\* 'already deleted' completes successfully; it does not throw.
C6_MissingAssetIsSuccess ==
    DestroyReported({ "ok" } \cup MissingResults) => del.result = "resolved"

\* destroy reported 'already deleted' and the handler threw CloudinaryDeleteError
C6_Witness ==
    /\ DestroyReported({ "already deleted" })
    /\ del.result = "rejected"
    /\ del.error = "CloudinaryDeleteError"

\* C7 as stated: the delete handler never propagates a failure; whatever the
\* destroy call did, the invocation ends resolved.
C7_DeleteNeverPropagates ==
    del.pc = "done" => del.result = "resolved"

\* destroy threw and the handler threw in turn
C7_Witness ==
    /\ DestroyReported({ "threw" })
    /\ del.result = "rejected"

\* C8 as stated: destroy is called with the identifier and the kind stored in
\* the document's metadata at upload time.
C8_DestroyUsesStoredKey ==
    del.pc # "idle" =>
        /\ LastCall.op = "destroy"
        /\ LastCall.arg = data.cloudinary.public_id
        /\ LastCall.kind = data.cloudinary.resource_type

\* the delete ended resolved on a key that is not the stored one, and the
\* asset uploaded under the stored key is still there
C8_Witness ==
    /\ DestroyReported({ "not found" })
    /\ del.result = "resolved"
    /\ LastCall.arg # data.cloudinary.public_id
    /\ data.cloudinary.public_id \in store

(***************************************************************************)
(* The upload handler's contract.                                          *)
(***************************************************************************)
\* the ways a file fails validation, stated on the file itself
FileFailsValidation(file) ==
    \/ IsBlank(file.filename)
    \/ file.buffer = NoBuffer
    \/ file.buffer = 0
    \/ file.buffer > MAX_FILE_SIZE
    \/ LastIndexOf(LastSegment(file.filename), ".") <= 1
    \/ toLowerCase(extname(file.filename)) \notin AllowedExtensions
    \/ \E i \in DOMAIN file.filename : file.filename[i] \in { "/", "\\" }
    \/ Includes(file.filename, <<".", ".">>)

\* the identifier the invocation generated fails validatePublicId
IdFailsValidation ==
    /\ up.publicIdValue # NullStr
    /\ validatePublicId(up.publicIdValue) # "ok"

\* no call of the invocation went to the remote upload
NoUploadCall == \A i \in DOMAIN calls : calls[i].op # "upload_stream"

UploadReportedError ==
    /\ up.pc = "done"
    /\ calls # << >>
    /\ calls[1].op = "upload_stream"
    /\ calls[1].outcome = "error"

\* C10: when the remote upload call reports an error the handler rejects with
\* the upload failure and the document is as it was handed in: data.cloudinary
\* and data.versions are not written.
C10_FailedUploadLeavesData ==
    UploadReportedError =>
        /\ up.result = "rejected"
        /\ up.error = "Failed to upload file to Cloudinary"
        /\ data = up.dataAtStart
        /\ data.cloudinary = up.dataAtStart.cloudinary
        /\ data.versions = up.dataAtStart.versions

\* the second upload of a document with a version history failed; metadata
\* and history of the first are in place
C10_Witness ==
    /\ UploadReportedError
    /\ uploads = 2
    /\ data.cloudinary # NoMetadata
    /\ Len(data.versions) = 1

(***************************************************************************)
(* The version history.                                                    *)
(***************************************************************************)
\* the step in which the upload callback, given a result, finishes its writes
\* and resolves
UploadSucceededStep ==
    /\ up.pc \in { "uploading", "pageCount" }
    /\ up'.pc = "done"
    /\ up'.result = "resolved"
    /\ up'.apiResult # NoUploadResult

HistoryConfigured == cfg.versioning.enabled /\ cfg.versioning.storeHistory

\* C11: the version history is append-only.  A successful upload appends
\* exactly one record at the end of data.versions when versioning.enabled and
\* versioning.storeHistory are both set and leaves data.versions as it is
\* otherwise; no other step touches data.versions, so the records already there
\* are never modified, reordered or removed.
C11_HistoryIsAppendOnly ==
    [][ IF UploadSucceededStep /\ HistoryConfigured
        THEN /\ Len(data'.versions) = Len(data.versions) + 1
             /\ SubSeq(data'.versions, 1, Len(data.versions)) = data.versions
             /\ data'.versions[Len(data'.versions)]
                    \in { VersionRecord(up'.apiResult, t) : t \in 1..MaxClock }
        ELSE data'.versions = data.versions ]_vars

\* two uploads of one document went through and the history holds a record of each
C11_Witness ==
    /\ up.pc = "done"
    /\ up.result = "resolved"
    /\ uploads = 2
    /\ Len(data.versions) = 2

(***************************************************************************)
(* index.ts: cloudinaryStorage and the adapter it creates.                 *)
(***************************************************************************)
\* validateFolderPath limit
MAX_FOLDER_LENGTH == 255

\* collections of the host that get the adapter
MaxCollections == 2

\* !s for a string that may be undefined
Falsy(s) == s = NullStr \/ s = << >>

\* /^[a-zA-Z0-9_-]+$/ on one character
IsCloudNameChar(c) ==
    \/ \E i \in 1..26 : LowerChars[i] = c \/ UpperChars[i] = c
    \/ \E i \in 1..10 : DigitChars[i] = c
    \/ c \in { "_", "-" }

\* validateCloudinaryConfig: "ok", or the message of the ConfigurationError
validateCloudinaryConfig(config) ==
    IF ~config.present THEN "Cloudinary configuration is required"
    ELSE IF Falsy(config.cloud_name) \/ IsBlank(config.cloud_name)
    THEN "Valid cloud_name is required in Cloudinary configuration"
    ELSE IF Falsy(config.api_key) \/ IsBlank(config.api_key)
    THEN "Valid api_key is required in Cloudinary configuration"
    ELSE IF Falsy(config.api_secret) \/ IsBlank(config.api_secret)
    THEN "Valid api_secret is required in Cloudinary configuration"
    ELSE IF \E i \in DOMAIN config.cloud_name : ~IsCloudNameChar(config.cloud_name[i])
    THEN "cloud_name contains invalid characters"
    ELSE "ok"

\* validateFolderPath without the check for '..'
validateFolderPathNoDotDot(f) ==
    IF Falsy(f) THEN "Folder path must be a non-empty string"
    ELSE IF Len(f) > MAX_FOLDER_LENGTH THEN "Folder path cannot exceed 255 characters"
    ELSE "ok"

\* validateFolderPath: "ok", or the message of the ValidationError
validateFolderPath(f) ==
    IF Falsy(f) THEN "Folder path must be a non-empty string"
    ELSE IF Includes(f, <<".", ".">>)
    THEN "Folder path cannot contain \"..\" for security reasons"
    ELSE IF Len(f) > MAX_FOLDER_LENGTH THEN "Folder path cannot exceed 255 characters"
    ELSE "ok"

\* folder = 'payload-media'
DefaultFolder == <<"p","a","y","l","o","a","d","-","m","e","d","i","a">>

\* inputs of cloudinaryStorage
CloudNames == { NullStr, <<" ">>, <<"c">>, <<"C","-","_","1">>, <<"c","!">> }
ApiKeys == { NullStr, <<" ">>, <<"k">> }
ApiSecrets == { NullStr, <<" ">>, <<"s">> }
PluginConfigs ==
    { [ present |-> FALSE, cloud_name |-> NullStr, api_key |-> NullStr,
        api_secret |-> NullStr ] }
    \cup [ present : { TRUE }, cloud_name : CloudNames, api_key : ApiKeys,
           api_secret : ApiSecrets ]
OptionFolders ==
    { NullStr, << >>, <<"m">>, <<"a","/",".",".","/","b">>,
      [ i \in 1..MAX_FOLDER_LENGTH |-> "a" ],
      [ i \in 1..(MAX_FOLDER_LENGTH + 1) |-> "a" ] }
PluginOptions ==
    [ enabled : BOOLEAN, config : PluginConfigs, folder : OptionFolders,
      collections : 0..MaxCollections ]

\* the host applies the plugin to its configuration; lines 47-49
PluginCalled ==
    /\ plugin.pc = "idle"
    /\ \E options \in PluginOptions :
         plugin' = [ PluginIdle EXCEPT !.pc = "validating", !.options = options ]
    /\ UNCHANGED << store, folder, client, adapters, calls, staticvars, docvars, purevars >>

\* enabled === false: the incoming configuration is returned as it is; lines 50-52
PluginDisabled ==
    /\ plugin.pc = "validating"
    /\ ~plugin.options.enabled
    /\ plugin' = [ plugin EXCEPT !.pc = "done", !.result = "returned" ]
    /\ UNCHANGED << store, folder, client, adapters, calls, staticvars, docvars, purevars >>

\* validateCloudinaryConfig, or validateFolderPath for a folder that is given,
\* throws; the catch rethrows; lines 54-60, 155-158
PluginRejectsOptions ==
    /\ plugin.pc = "validating"
    /\ plugin.options.enabled
    /\ \E configVerdict \in { validateCloudinaryConfig(plugin.options.config) },
          folderVerdict \in { IF Falsy(plugin.options.folder) THEN "ok"
                              ELSE validateFolderPath(plugin.options.folder) } :
         /\ configVerdict # "ok" \/ folderVerdict # "ok"
         /\ plugin' = [ plugin EXCEPT !.pc = "done", !.result = "threw",
                                      !.error = IF configVerdict # "ok" THEN configVerdict
                                                ELSE folderVerdict ]
    /\ UNCHANGED << store, folder, client, adapters, calls, staticvars, docvars, purevars >>

\* the options pass: cloudinaryStorageInternal binds them, folder defaulting
\* to 'payload-media' when undefined, and cloudStoragePlugin is entered;
\* lines 54-62, 152-154, 161-172
PluginCreatesAdapter ==
    /\ plugin.pc = "validating"
    /\ plugin.options.enabled
    /\ validateCloudinaryConfig(plugin.options.config) = "ok"
    /\ Falsy(plugin.options.folder) \/ validateFolderPath(plugin.options.folder) = "ok"
    /\ plugin' = [ plugin EXCEPT !.pc = "plugin", !.remaining = plugin.options.collections ]
    /\ folder' = IF plugin.options.folder = NullStr THEN DefaultFolder
                 ELSE plugin.options.folder
    /\ UNCHANGED << store, client, adapters, calls, staticvars, docvars, purevars >>

\* the adapter is instantiated for a collection and its validation throws;
\* the error passes through both catch blocks; lines 172-176, 209-212, 155-158
AdapterRejected ==
    /\ plugin.pc = "plugin"
    /\ plugin.remaining > 0
    /\ \E configVerdict \in { validateCloudinaryConfig(plugin.options.config) },
          folderVerdict \in { validateFolderPath(folder) } :
         /\ configVerdict # "ok" \/ folderVerdict # "ok"
         /\ plugin' = [ plugin EXCEPT !.pc = "done", !.result = "threw",
                                      !.error = IF configVerdict # "ok" THEN configVerdict
                                                ELSE folderVerdict ]
    /\ UNCHANGED << store, folder, client, adapters, calls, staticvars, docvars, purevars >>

\* the adapter is instantiated for a collection: the remote client is
\* configured and the four handlers are created; lines 172-208
AdapterCreated ==
    /\ plugin.pc = "plugin"
    /\ plugin.remaining > 0
    /\ validateCloudinaryConfig(plugin.options.config) = "ok"
    /\ validateFolderPath(folder) = "ok"
    /\ client' = plugin.options.config.cloud_name
    /\ adapters' = adapters + 1
    /\ plugin' = [ plugin EXCEPT !.remaining = plugin.remaining - 1 ]
    /\ UNCHANGED << store, folder, calls, staticvars, docvars, purevars >>

\* cloudStoragePlugin returns the configuration; lines 152-154
PluginReturns ==
    /\ plugin.pc = "plugin"
    /\ plugin.remaining = 0
    /\ plugin' = [ plugin EXCEPT !.pc = "done", !.result = "returned" ]
    /\ UNCHANGED << store, folder, client, adapters, calls, staticvars, docvars, purevars >>

PluginNext ==
    \/ PluginCalled
    \/ PluginDisabled
    \/ PluginRejectsOptions
    \/ PluginCreatesAdapter
    \/ AdapterRejected
    \/ AdapterCreated
    \/ PluginReturns

PluginInit ==
    /\ store = { }
    /\ folder = NullStr
    /\ sh = ShIdle
    /\ calls = << >>
    /\ response = NoResponse
    /\ cfg = DefaultCfg
    /\ data = NoData
    /\ up = UpIdle
    /\ del = DelIdle
    /\ uploads = 0
    /\ plugin = PluginIdle
    /\ client = NullStr
    /\ adapters = 0
    /\ gen = GenIdle
    /\ san = SanIdle
    /\ cls = ClsIdle
    /\ link = UrlIdle
    /\ race = RaceIdle
    /\ multi = MultiIdle
    /\ val = ValIdle

\* one application of the plugin to a host configuration
SpecPlugin == PluginInit /\ [][PluginNext]_vars

(***************************************************************************)
(* Plugin initialization fails fast.                                       *)
(***************************************************************************)
\* a credential that is missing or blank
MissingOrBlank(s) == s = NullStr \/ \A i \in DOMAIN s : s[i] \in Whitespace

\* the configuration the plugin was called with is invalid
ConfigIsInvalid ==
    LET config == plugin.options.config
    IN  \/ MissingOrBlank(config.cloud_name)
        \/ MissingOrBlank(config.api_key)
        \/ MissingOrBlank(config.api_secret)
        \/ \E i \in DOMAIN config.cloud_name :
              config.cloud_name[i] \notin
                  { LowerChars[j] : j \in 1..26 } \cup { UpperChars[j] : j \in 1..26 }
                      \cup { DigitChars[j] : j \in 1..10 } \cup { "-", "_" }

\* the folder path the plugin was called with contains '..' or is too long
FolderIsUnsafe ==
    /\ plugin.options.folder # NullStr
    /\ \/ \E i \in 1..(Len(plugin.options.folder) - 1) :
             plugin.options.folder[i] = "." /\ plugin.options.folder[i + 1] = "."
       \/ Len(plugin.options.folder) > 255

FolderIsEmpty == plugin.options.folder = << >>

\* cloudinaryStorage threw
PluginThrew == plugin.pc = "done" /\ plugin.result = "threw" /\ plugin.error # "none"

\* no remote client configured, no handler created, no network call made
NothingInitialized == client = NullStr /\ adapters = 0 /\ calls = << >>

\* C12 as stated: with an invalid configuration or an invalid folder path
\* (empty, containing '..', longer than 255 characters) cloudinaryStorage
\* throws, before the client is configured and before any handler exists.
C12_AsStated ==
    (plugin.pc = "done" /\ (ConfigIsInvalid \/ FolderIsUnsafe \/ FolderIsEmpty)) =>
        PluginThrew /\ NothingInitialized

\* C12: a plugin that is not disabled throws on an invalid configuration and
\* on a folder path that contains '..' or is longer than 255 characters; on
\* an empty folder path it throws once the adapter is instantiated for a
\* collection.  With an invalid configuration or folder path the remote client
\* is never configured, no handler is ever created and no network call is made.
C12_InitFailsFast ==
    /\ (plugin.pc = "done" /\ plugin.options.enabled
            /\ (ConfigIsInvalid \/ FolderIsUnsafe)) => PluginThrew
    /\ (plugin.pc = "done" /\ plugin.options.enabled /\ FolderIsEmpty
            /\ plugin.options.collections > 0) => PluginThrew
    /\ (plugin.pc # "idle" /\ (ConfigIsInvalid \/ FolderIsUnsafe \/ FolderIsEmpty)) =>
           NothingInitialized

\* valid credentials with a folder path that contains '..': the plugin threw
C12_Witness ==
    /\ PluginThrew
    /\ ~ConfigIsInvalid
    /\ FolderIsUnsafe
    /\ Len(plugin.options.folder) <= 255
    /\ plugin.options.collections > 0
    /\ NothingInitialized

(***************************************************************************)
(* Identifier generation: generatePublicID of src/src/handleUpload.ts and  *)
(* the variant of handleUpload.ts that takes the resource type and         *)
(* keepRawExtension (src/unnamed/part_002).                                *)
(***************************************************************************)
\* /[^a-z0-9_.-]/ on one character, negated
IsPublicIdChar(c) == IsLowerAlnum(c) \/ c \in { "_", ".", "-" }

\* part_002 sanitizeForPublicID: letters, digits, underscore, dot, hyphen
part002_sanitizeForPublicID(str) ==
    LET lower    == toLowerCase(str)
        replaced == [ i \in DOMAIN lower |-> IF IsPublicIdChar(lower[i]) THEN lower[i] ELSE "-" ]
    IN  TrimHyphens(CollapseHyphens(replaced))

\* utils.ts sanitizeForPublicID: letters and digits, no cap
utils_sanitizeForPublicID(str) ==
    LET lower    == toLowerCase(str)
        replaced == [ i \in DOMAIN lower |-> IF IsLowerAlnum(lower[i]) THEN lower[i] ELSE "-" ]
    IN  TrimHyphens(CollapseHyphens(replaced))

\* the custom generator's result put through the sanitizer
CustomPublicIDSanitized(publicIDOptions, filename, folderPath) ==
    part002_sanitizeForPublicID(
        CustomGenerator(publicIDOptions.generatePublicID, filename,
                        dirname(folderPath), basename(folderPath, << >>)))

\* publicIDOptions.generatePublicID(filename, path.dirname(folderPath),
\* path.basename(folderPath)); part_002 line 248
CustomPublicID(publicIDOptions, filename, folderPath) ==
    CustomGenerator(publicIDOptions.generatePublicID, filename,
                    dirname(folderPath), basename(folderPath, << >>))

\* shouldKeepExtension for any kind
shouldKeepExtensionAnyKind(publicIDOptions, resourceType) ==
    publicIDOptions.keepRawExtension

\* shouldKeepExtension; part_002 line 251
shouldKeepExtension(publicIDOptions, resourceType) ==
    publicIDOptions.keepRawExtension /\ resourceType = "raw"

\* the name part without sanitization
NamePartUnsanitized(filename, keep) ==
    LET nameToProcess  == basename(filename, << >>)
        ext            == extname(nameToProcess)
        nameWithoutExt == basename(nameToProcess, ext)
    IN  IF keep THEN nameWithoutExt \o ext ELSE nameWithoutExt

\* the name part with the extension sanitized along with the name
NamePartSanitizesExtension(filename, keep) ==
    LET nameToProcess  == basename(filename, << >>)
        ext            == extname(nameToProcess)
        nameWithoutExt == basename(nameToProcess, ext)
    IN  IF keep THEN part002_sanitizeForPublicID(nameWithoutExt \o ext)
        ELSE part002_sanitizeForPublicID(nameWithoutExt)

\* finalNamePart of the enabled:false branch and baseNameSegment of the
\* default branch; part_002 lines 256-265 and 275-286
NamePart(filename, keep) ==
    LET nameToProcess  == basename(filename, << >>)
        ext            == extname(nameToProcess)
        nameWithoutExt == basename(nameToProcess, ext)
    IN  IF keep THEN part002_sanitizeForPublicID(nameWithoutExt) \o ext
        ELSE part002_sanitizeForPublicID(nameWithoutExt)

\* the timestamp appended whatever uniqueFilename says
TimestampAlways(publicIDOptions, t) == <<"_">> \o ToDigits(t)

\* uniqueFilename ? `_${Date.now()}` : ''; part_002 line 272
Timestamp(publicIDOptions, t) ==
    IF publicIDOptions.uniqueFilename THEN <<"_">> \o ToDigits(t) ELSE << >>

\* part_002 generatePublicID; t is the reading of Date.now()
part002_generatePublicID(filename, folderPath, resourceType, publicIDOptions, t) ==
    IF publicIDOptions.generatePublicID # "none"
    THEN CustomPublicID(publicIDOptions, filename, folderPath)
    ELSE IF ~publicIDOptions.enabled
    THEN PosixJoin(<< folderPath,
                      NamePart(filename, shouldKeepExtension(publicIDOptions, resourceType)) >>)
    ELSE IF publicIDOptions.useFilename
    THEN PosixJoin(<< folderPath,
                      NamePart(filename, shouldKeepExtension(publicIDOptions, resourceType))
                          \o Timestamp(publicIDOptions, t) >>)
    ELSE PosixJoin(<< folderPath, <<"m","e","d","i","a">> \o Timestamp(publicIDOptions, t) >>)

\* arguments of generatePublicID
GenFilenames ==
    { <<"t","e","s","t",".","j","p","g">>,
      <<"T","e","s","t"," ","F","i","l","e",".","p","d","f">>,
      <<"U","P","P","E","R",".","R","A","W">>,
      <<"a","_","b",".","c",".","t","x","t">>,
      <<"n","o","e","x","t">> }
GenFolders ==
    { <<"m","y","/","f","o","l","d","e","r">>,
      <<"b","a","s","e","/","f","o","l","d","e","r","/","p","a","t","h">>,
      <<"m">> }
ResourceTypes == { "image", "video", "raw", "auto" }
GeneratorChoices == { "none", "template", "query", "empty" }
GenOptions ==
    [ generatePublicID : GeneratorChoices, enabled : BOOLEAN, useFilename : BOOLEAN,
      uniqueFilename : BOOLEAN, keepRawExtension : BOOLEAN ]

\* generatePublicID of src/src/handleUpload.ts is applied to the arguments
GenerateInHandler ==
    /\ gen.pc = "called"
    /\ gen' = [ gen EXCEPT !.pc = "returned", !.variant = "handleUpload.ts",
                           !.id = generatePublicID(gen.filename, gen.folderPath,
                                                   gen.publicIDOptions, gen.now) ]
    /\ UNCHANGED << store, folder, calls, staticvars, docvars, pluginvars, san, cls, morevars >>

\* generatePublicID of part_002 is applied to the arguments
GenerateWithKind ==
    /\ gen.pc = "called"
    /\ gen' = [ gen EXCEPT !.pc = "returned", !.variant = "part_002",
                           !.id = part002_generatePublicID(gen.filename, gen.folderPath,
                                                           gen.resourceType,
                                                           gen.publicIDOptions, gen.now) ]
    /\ UNCHANGED << store, folder, calls, staticvars, docvars, pluginvars, san, cls, morevars >>

GenerateNext ==
    \/ GenerateInHandler
    \/ GenerateWithKind

GenerateInit ==
    /\ store = { }
    /\ folder = NullStr
    /\ sh = ShIdle
    /\ calls = << >>
    /\ response = NoResponse
    /\ cfg = DefaultCfg
    /\ data = NoData
    /\ up = UpIdle
    /\ del = DelIdle
    /\ uploads = 0
    /\ plugin = PluginIdle
    /\ client = NullStr
    /\ adapters = 0
    /\ gen \in [ pc : { "called" }, variant : { "none" }, filename : GenFilenames,
                 folderPath : GenFolders, resourceType : ResourceTypes,
                 publicIDOptions : GenOptions, now : 1..MaxClock, id : { NullStr } ]
    /\ san = SanIdle
    /\ cls = ClsIdle
    /\ link = UrlIdle
    /\ race = RaceIdle
    /\ multi = MultiIdle
    /\ val = ValIdle

\* one call of generatePublicID on arguments drawn from the sets above
SpecGenerate == GenerateInit /\ [][GenerateNext]_vars

(***************************************************************************)
(* The identifier generator's contract.                                    *)
(***************************************************************************)
Generated == gen.pc = "returned"
GenOpts == gen.publicIDOptions

\* the folder path up to its last separator ('.' when it has none), and the
\* rest
FolderParent(p) ==
    IF \E i \in DOMAIN p : p[i] = "/"
    THEN SubSeq(p, 1, (CHOOSE i \in DOMAIN p :
                           p[i] = "/" /\ \A j \in (i + 1)..Len(p) : p[j] # "/") - 1)
    ELSE <<".">>
FolderName(p) ==
    IF \E i \in DOMAIN p : p[i] = "/"
    THEN SubSeq(p, (CHOOSE i \in DOMAIN p :
                        p[i] = "/" /\ \A j \in (i + 1)..Len(p) : p[j] # "/") + 1, Len(p))
    ELSE p

\* C13: with a custom generator the identifier is exactly what the generator
\* returns for (filename, dirname(folderPath), basename(folderPath)), whatever
\* enabled, useFilename, uniqueFilename, keepRawExtension and the kind are.
C13_CustomGeneratorDecides ==
    (Generated /\ GenOpts.generatePublicID # "none") =>
        gen.id = CustomGenerator(GenOpts.generatePublicID, gen.filename,
                                 FolderParent(gen.folderPath), FolderName(gen.folderPath))

\* the template generator decided although ids are disabled and the raw
\* extension is to be kept
C13_Witness ==
    /\ Generated
    /\ gen.variant = "part_002"
    /\ GenOpts.generatePublicID = "template"
    /\ ~GenOpts.enabled
    /\ GenOpts.keepRawExtension
    /\ gen.resourceType = "raw"
    /\ gen.filename = <<"U","P","P","E","R",".","R","A","W">>
    /\ gen.folderPath = <<"m","y","/","f","o","l","d","e","r">>
    /\ gen.id = <<"c","u","s","t","o","m","/","f","o","l","d","e","r","/","m","y","/",
                  "U","P","P","E","R",".","R","A","W","-","c","u","s","t","o","m">>

\* the filename without directories and without its extension
Stem(filename) ==
    LET seg == FolderName(filename)
        dots == { i \in DOMAIN seg : seg[i] = "." }
        d   == IF dots = { } THEN 0 ELSE CHOOSE i \in dots : \A j \in dots : j <= i
    IN  IF d > 1 THEN SubSeq(seg, 1, d - 1) ELSE seg

\* the extension of the filename, with its dot, as written
Extension(filename) ==
    SubSeq(FolderName(filename), Len(Stem(filename)) + 1, Len(FolderName(filename)))

\* the sanitizer of the variant that was called
Sanitized(s) ==
    IF gen.variant = "part_002" THEN part002_sanitizeForPublicID(s)
    ELSE sanitizeString(s)

\* the uniqueness token of the call
Token == <<"_">> \o ToDigits(gen.now)

\* enabled:false and no custom generator
IdsDisabled == Generated /\ GenOpts.generatePublicID = "none" /\ ~GenOpts.enabled

\* the variant that knows keepRawExtension was asked to keep a raw extension
KeepsRawExtension ==
    /\ gen.variant = "part_002"
    /\ GenOpts.keepRawExtension
    /\ gen.resourceType = "raw"

\* C14 as stated: with enabled:false and no custom generator the identifier is
\* join(folderPath, sanitize(stem)) for every kind and every value of
\* useFilename, uniqueFilename and keepRawExtension.
C14_AsStated ==
    IdsDisabled => gen.id = PosixJoin(<< gen.folderPath, Sanitized(Stem(gen.filename)) >>)

\* C14: with enabled:false and no custom generator the identifier never
\* carries a uniqueness token, and it is join(folderPath, sanitize(stem)) for
\* every value of useFilename and uniqueFilename and for every kind and
\* keepRawExtension other than keepRawExtension:true with kind raw.
C14_DisabledIdIsSanitizedStem ==
    IdsDisabled =>
        /\ ~Includes(gen.id, Token)
        /\ ~KeepsRawExtension =>
               gen.id = PosixJoin(<< gen.folderPath, Sanitized(Stem(gen.filename)) >>)

\* 'Test File.pdf' as an image with keepRawExtension and uniqueFilename set
C14_Witness ==
    /\ IdsDisabled
    /\ gen.variant = "part_002"
    /\ GenOpts.keepRawExtension
    /\ GenOpts.uniqueFilename
    /\ ~GenOpts.useFilename
    /\ gen.resourceType = "image"
    /\ gen.filename = <<"T","e","s","t"," ","F","i","l","e",".","p","d","f">>
    /\ gen.id = <<"m","y","/","f","o","l","d","e","r","/","t","e","s","t","-","f","i","l","e">>

\* C15: with enabled:false, keepRawExtension:true and kind raw the variant that
\* takes a kind gives join(folderPath, sanitize(stem) + original extension);
\* with kind image the same options give the identifier without extension.
C15_DisabledRawKeepsExtension ==
    (IdsDisabled /\ gen.variant = "part_002" /\ GenOpts.keepRawExtension) =>
        /\ gen.resourceType = "raw" =>
               gen.id = PosixJoin(<< gen.folderPath,
                                     part002_sanitizeForPublicID(Stem(gen.filename))
                                         \o Extension(gen.filename) >>)
        /\ gen.resourceType = "image" =>
               gen.id = PosixJoin(<< gen.folderPath,
                                     part002_sanitizeForPublicID(Stem(gen.filename)) >>)

\* 'UPPER.RAW' as raw keeps '.RAW' in its original case
C15_Witness ==
    /\ IdsDisabled
    /\ KeepsRawExtension
    /\ gen.filename = <<"U","P","P","E","R",".","R","A","W">>
    /\ gen.folderPath = <<"m","y","/","f","o","l","d","e","r">>
    /\ gen.id = <<"m","y","/","f","o","l","d","e","r","/","u","p","p","e","r",".","R","A","W">>

\* no custom generator and enabled not false
IdsDefaultPath == Generated /\ GenOpts.generatePublicID = "none" /\ GenOpts.enabled

\* stem of the default path: the sanitized name, or the literal 'media'
DefaultStem ==
    IF GenOpts.useFilename THEN Sanitized(Stem(gen.filename))
    ELSE <<"m","e","d","i","a">>

\* suffix of the default path: '_' and the current time, or nothing
DefaultSuffix == IF GenOpts.uniqueFilename THEN Token ELSE << >>

\* C16: on the default path, when the extension is not kept, the identifier is
\* join(folderPath, stem + suffix), stem being the sanitized filename without
\* extension or 'media', suffix being '_' + time or empty; the file's
\* extension is not part of the result.
C16_DefaultPathId ==
    (IdsDefaultPath /\ ~KeepsRawExtension) =>
        /\ gen.id = PosixJoin(<< gen.folderPath, DefaultStem \o DefaultSuffix >>)
        /\ ~Includes(DefaultStem, <<".">>) => ~Includes(FolderName(gen.id), <<".">>)

\* 'test.jpg' as an image in 'my/folder' at time 1 gives 'my/folder/test_1'
C16_Witness ==
    /\ IdsDefaultPath
    /\ gen.variant = "part_002"
    /\ GenOpts.useFilename /\ GenOpts.uniqueFilename /\ GenOpts.keepRawExtension
    /\ gen.resourceType = "image"
    /\ gen.filename = <<"t","e","s","t",".","j","p","g">>
    /\ gen.now = 1
    /\ gen.id = <<"m","y","/","f","o","l","d","e","r","/","t","e","s","t","_","1">>

\* C17: on the default path with useFilename:true, keepRawExtension:true and
\* kind raw the identifier is join(folderPath, sanitize(stem) + suffix +
\* original extension): the extension comes last, after the uniqueness token.
C17_ExtensionAfterToken ==
    (IdsDefaultPath /\ KeepsRawExtension /\ GenOpts.useFilename) =>
        gen.id = PosixJoin(<< gen.folderPath,
                              part002_sanitizeForPublicID(Stem(gen.filename))
                                  \o DefaultSuffix \o Extension(gen.filename) >>)

\* 'UPPER.RAW' as raw at time 1: the token follows the extension
C17_Witness ==
    /\ IdsDefaultPath /\ KeepsRawExtension
    /\ GenOpts.useFilename /\ GenOpts.uniqueFilename
    /\ gen.filename = <<"U","P","P","E","R",".","R","A","W">>
    /\ gen.folderPath = <<"m","y","/","f","o","l","d","e","r">>
    /\ gen.now = 1
    /\ gen.id = <<"m","y","/","f","o","l","d","e","r","/","u","p","p","e","r",".","R","A","W","_","1">>

\* the identifier the same call produces with keepRawExtension:false
IdWithoutKeepRawExtension ==
    part002_generatePublicID(gen.filename, gen.folderPath, gen.resourceType,
                             [ GenOpts EXCEPT !.keepRawExtension = FALSE ], gen.now)

\* C18 as stated: keepRawExtension has no effect whenever the kind is not raw
\* or useFilename is false.
C18_AsStated ==
    (Generated /\ gen.variant = "part_002"
               /\ (gen.resourceType # "raw" \/ ~GenOpts.useFilename)) =>
        gen.id = IdWithoutKeepRawExtension

\* C18: keepRawExtension has no effect whenever the kind is not raw, or
\* useFilename is false on the default path (enabled not false): the identifier
\* is the one produced with keepRawExtension:false.
C18_KeepRawExtensionIgnored ==
    (Generated /\ gen.variant = "part_002"
               /\ \/ gen.resourceType # "raw"
                  \/ (~GenOpts.useFilename /\ (GenOpts.enabled \/ GenOpts.generatePublicID # "none"))) =>
        gen.id = IdWithoutKeepRawExtension

\* 'UPPER.RAW' as raw with useFilename:false at time 1 gives 'my/folder/media_1'
C18_Witness ==
    /\ IdsDefaultPath /\ KeepsRawExtension
    /\ ~GenOpts.useFilename /\ GenOpts.uniqueFilename
    /\ gen.filename = <<"U","P","P","E","R",".","R","A","W">>
    /\ gen.now = 1
    /\ gen.id = <<"m","y","/","f","o","l","d","e","r","/","m","e","d","i","a","_","1">>

(***************************************************************************)
(* The sanitizers applied once and again: sanitizeString (validation.ts),  *)
(* sanitizeForPublicID of part_002 and sanitizeForPublicID of utils.ts.    *)
(***************************************************************************)
MaxSanitizeLen == 3

SanitizeChars == { "a", "B", "1", "-", "_", ".", " " }

Repeat(c, n) == [ i \in 1..n |-> c ]

\* strings around the cap of sanitizeString
LongInputs ==
    { Repeat("a", SANITIZE_LIMIT - 1),
      Repeat("a", SANITIZE_LIMIT),
      Repeat("a", SANITIZE_LIMIT + 1),
      Repeat("a", SANITIZE_LIMIT - 1) \o <<"-">>,
      Repeat("a", SANITIZE_LIMIT - 1) \o <<"-","b">>,
      Repeat("a", SANITIZE_LIMIT - 1) \o <<"_",".","b">>,
      <<"-">> \o Repeat("a", SANITIZE_LIMIT - 1) \o <<" ","B">> }

SanitizeInputs ==
    UNION { [ 1..n -> SanitizeChars ] : n \in 0..MaxSanitizeLen } \cup LongInputs

ApplySanitizer(name, s) ==
    CASE name = "sanitizeString" -> sanitizeString(s)
      [] name = "part_002"       -> part002_sanitizeForPublicID(s)
      [] name = "utils.ts"       -> utils_sanitizeForPublicID(s)

\* sanitizeString(input)
SanitizeStrict ==
    /\ san.pc = "called"
    /\ san' = [ san EXCEPT !.pc = "once", !.variant = "sanitizeString",
                           !.once = sanitizeString(san.input) ]
    /\ UNCHANGED << store, folder, calls, staticvars, docvars, pluginvars, gen, cls, morevars >>

\* part_002 sanitizeForPublicID(input)
SanitizeForPublicID ==
    /\ san.pc = "called"
    /\ san' = [ san EXCEPT !.pc = "once", !.variant = "part_002",
                           !.once = part002_sanitizeForPublicID(san.input) ]
    /\ UNCHANGED << store, folder, calls, staticvars, docvars, pluginvars, gen, cls, morevars >>

\* utils.ts sanitizeForPublicID(input)
SanitizeInUtils ==
    /\ san.pc = "called"
    /\ san' = [ san EXCEPT !.pc = "once", !.variant = "utils.ts",
                           !.once = utils_sanitizeForPublicID(san.input) ]
    /\ UNCHANGED << store, folder, calls, staticvars, docvars, pluginvars, gen, cls, morevars >>

\* the same sanitizer applied to its own result
SanitizeAgain ==
    /\ san.pc = "once"
    /\ san' = [ san EXCEPT !.pc = "twice", !.twice = ApplySanitizer(san.variant, san.once) ]
    /\ UNCHANGED << store, folder, calls, staticvars, docvars, pluginvars, gen, cls, morevars >>

SanitizeNext ==
    \/ SanitizeStrict
    \/ SanitizeForPublicID
    \/ SanitizeInUtils
    \/ SanitizeAgain

SanitizeInit ==
    /\ store = { }
    /\ folder = NullStr
    /\ sh = ShIdle
    /\ calls = << >>
    /\ response = NoResponse
    /\ cfg = DefaultCfg
    /\ data = NoData
    /\ up = UpIdle
    /\ del = DelIdle
    /\ uploads = 0
    /\ plugin = PluginIdle
    /\ client = NullStr
    /\ adapters = 0
    /\ gen = GenIdle
    /\ san \in [ pc : { "called" }, variant : { "none" }, input : SanitizeInputs,
                 once : { NullStr }, twice : { NullStr } ]
    /\ cls = ClsIdle
    /\ link = UrlIdle
    /\ race = RaceIdle
    /\ multi = MultiIdle
    /\ val = ValIdle

\* a sanitizer applied to an input string, then to its own result
SpecSanitize == SanitizeInit /\ [][SanitizeNext]_vars

\* C19: sanitize is idempotent for every input and every variant:
\* sanitize(sanitize(x)) = sanitize(x).
C19_SanitizeIdempotent ==
    san.pc = "twice" => san.twice = san.once

\* the identifier-safe sanitizers are idempotent
C19_PublicIdSanitizersIdempotent ==
    (san.pc = "twice" /\ san.variant # "sanitizeString") => san.twice = san.once

\* 99 letters, a hyphen and a letter: the cap cuts after the hyphen, and the
\* second pass trims it
C19_Witness ==
    /\ san.pc = "twice"
    /\ san.variant = "sanitizeString"
    /\ san.input = Repeat("a", SANITIZE_LIMIT - 1) \o <<"-","b">>
    /\ san.once = Repeat("a", SANITIZE_LIMIT - 1) \o <<"-">>
    /\ san.twice = Repeat("a", SANITIZE_LIMIT - 1)

(***************************************************************************)
(* getResourceType (utils.ts) applied to an extension string.              *)
(***************************************************************************)
UpperChar(c) ==
    IF \E i \in 1..26 : LowerChars[i] = c
    THEN UpperChars[CHOOSE i \in 1..26 : LowerChars[i] = c]
    ELSE c

toUpperCase(s) == [ i \in DOMAIN s |-> UpperChar(s[i]) ]

\* only the first letter after the dot in upper case
Capitalized(s) ==
    [ i \in DOMAIN s |-> IF i = 2 THEN UpperChar(s[i]) ELSE s[i] ]

KnownExtensions == IMAGE_EXTENSIONS \cup VIDEO_EXTENSIONS \cup RAW_EXTENSIONS

\* the strings the unit tests call unknown, dot-less or edge cases
OtherExtensions ==
    { << >>, <<".">>, <<".",".">>,
      <<"j","p","g">>, <<"m","p","4">>, <<"p","d","f">>,
      <<".","u","n","k","n","o","w","n">>, <<".","x","y","z">>,
      <<".","c","u","s","t","o","m">> }

ClassifyInputs ==
    KnownExtensions
        \cup { toUpperCase(e) : e \in KnownExtensions }
        \cup { Capitalized(e) : e \in KnownExtensions }
        \cup OtherExtensions

\* getResourceType(ext)
Classify ==
    /\ cls.pc = "called"
    /\ cls' = [ cls EXCEPT !.pc = "returned", !.kind = getResourceType(cls.ext) ]
    /\ UNCHANGED << store, folder, calls, staticvars, docvars, pluginvars, gen, san, morevars >>

ClassifyNext == Classify

ClassifyInit ==
    /\ store = { }
    /\ folder = NullStr
    /\ sh = ShIdle
    /\ calls = << >>
    /\ response = NoResponse
    /\ cfg = DefaultCfg
    /\ data = NoData
    /\ up = UpIdle
    /\ del = DelIdle
    /\ uploads = 0
    /\ plugin = PluginIdle
    /\ client = NullStr
    /\ adapters = 0
    /\ gen = GenIdle
    /\ san = SanIdle
    /\ cls \in [ pc : { "called" }, ext : ClassifyInputs, kind : { "none" } ]
    /\ link = UrlIdle
    /\ race = RaceIdle
    /\ multi = MultiIdle
    /\ val = ValIdle

\* one call of getResourceType on an extension drawn from ClassifyInputs
SpecClassify == ClassifyInit /\ [][ClassifyNext]_vars

Classified == cls.pc = "returned"

\* C20: classification is total and case-insensitive: an extension of the
\* image, video or raw set maps to that kind in any letter case, and every
\* other string maps to auto.
C20_ClassifyTotalCaseInsensitive ==
    Classified =>
        /\ cls.kind \in { "image", "video", "raw", "auto" }
        /\ toLowerCase(cls.ext) \in IMAGE_EXTENSIONS => cls.kind = "image"
        /\ toLowerCase(cls.ext) \in VIDEO_EXTENSIONS => cls.kind = "video"
        /\ toLowerCase(cls.ext) \in RAW_EXTENSIONS => cls.kind = "raw"
        /\ toLowerCase(cls.ext) \notin KnownExtensions => cls.kind = "auto"

\* classification is total, exact on the lower-case spellings, and auto on
\* every string whose lower-case form is in no set
C20_ClassifyTotal ==
    Classified =>
        /\ cls.kind \in { "image", "video", "raw", "auto" }
        /\ cls.ext \in IMAGE_EXTENSIONS => cls.kind = "image"
        /\ cls.ext \in VIDEO_EXTENSIONS => cls.kind = "video"
        /\ cls.ext \in RAW_EXTENSIONS => cls.kind = "raw"
        /\ toLowerCase(cls.ext) \notin KnownExtensions => cls.kind = "auto"

\* '.JPG' is classified auto
C20_Witness ==
    /\ Classified
    /\ cls.ext = <<".","J","P","G">>
    /\ cls.kind = "auto"

(***************************************************************************)
(* generateURL.ts: getGenerateURL, and the variant that rebuilds the path   *)
(* from folder, prefix and filename (src/unnamed/part_001).                *)
(***************************************************************************)
\* `https://res.cloudinary.com/${config.cloud_name}`
BaseUrl(cloud_name) ==
    <<"h","t","t","p","s",":","/","/","r","e","s",".","c","l","o","u","d","i","n","a","r","y",".","c","o","m","/">>
        \o cloud_name

\* (versioning?.enabled && version) ? `/v${version}` : ''
VersionSegmentAlways(versioning, version) ==
    IF ~Falsy(version) THEN <<"/","v">> \o version ELSE << >>

VersionSegment(versioning, version) ==
    IF versioning = "enabled" /\ ~Falsy(version) THEN <<"/","v">> \o version ELSE << >>

\* the kind segment of the switch on the resource type
KindSegment(resourceType) ==
    CASE resourceType = "video" -> <<"/","v","i","d","e","o">>
      [] resourceType = "image" -> <<"/","i","m","a","g","e">>
      [] resourceType = "raw"   -> <<"/","r","a","w">>
      [] OTHER                  -> <<"/","a","u","t","o">>

\* the switch with the image transformation on every kind
KindUrlTransformsAll(baseUrl, resourceType, versionSegment, filePath) ==
    baseUrl \o KindSegment(resourceType)
            \o <<"/","u","p","l","o","a","d">> \o versionSegment
            \o <<"/","f","_","a","u","t","o",",","q","_","a","u","t","o">>
            \o <<"/">> \o filePath

\* the switch on the resource type (generateURL.ts:84-96, part_001:37-49)
KindUrl(baseUrl, resourceType, versionSegment, filePath) ==
    baseUrl \o KindSegment(resourceType)
            \o <<"/","u","p","l","o","a","d">> \o versionSegment
            \o ( IF resourceType \in { "video", "image" }
                 THEN <<"/","f","_","a","u","t","o",",","q","_","a","u","t","o">>
                 ELSE << >> )
            \o <<"/">> \o filePath

\* the PDF thumbnail URL with the page taken as given
ThumbnailRequestUrlNoDefaultPage(baseUrl, versionSegment, pdf_page, public_id) ==
    baseUrl \o <<"/","i","m","a","g","e","/","u","p","l","o","a","d">> \o versionSegment
            \o <<"/","p","g","_">> \o ToDigits(pdf_page)
            \o <<",","f","_","j","p","g",",","q","_","a","u","t","o","/">>
            \o public_id \o <<".","p","d","f">>

\* generateURL.ts:59-63
ThumbnailRequestUrl(baseUrl, versionSegment, pdf_page, public_id) ==
    LET pageNumber == IF pdf_page = 0 THEN 1 ELSE pdf_page
    IN  baseUrl \o <<"/","i","m","a","g","e","/","u","p","l","o","a","d">> \o versionSegment
                \o <<"/","p","g","_">> \o ToDigits(pageNumber)
                \o <<",","f","_","j","p","g",",","q","_","a","u","t","o","/">>
                \o public_id \o <<".","p","d","f">>

\* generateURLCore of generateURL.ts; p holds config, versioning and params
generateURLCore(p) ==
    IF Falsy(p.public_id)
    THEN [ url |-> NullStr, error |-> "public_id not found on doc.cloudinary" ]
    ELSE LET ext == toLowerCase(extname(p.filename))
             resourceTypeForURL == getResourceType(ext)
             baseUrl == BaseUrl(p.cloud_name)
             versionSegment == VersionSegment(p.versioning, p.version)
         IN  IF isPDF(p.filename) /\ p.format = <<"j","p","g">>
             THEN [ url |-> ThumbnailRequestUrl(baseUrl, versionSegment, p.pdf_page, p.public_id),
                    error |-> "none" ]
             ELSE [ url |-> KindUrl(baseUrl, resourceTypeForURL, versionSegment, p.public_id \o ext),
                    error |-> "none" ]

\* the function getGenerateURL returns (generateURL.ts:106-118)
generateURL(p) ==
    IF ~p.hasDoc
    THEN [ url |-> NullStr, error |-> "'doc' object was not provided" ]
    ELSE generateURLCore(p)

\* the function getGenerateURL of part_001 returns
part001_generateURL(p) ==
    LET folderPath == IF p.prefix # << >> THEN PosixJoin(<< p.folder, p.prefix >>) ELSE p.folder
        filePath == PosixJoin(<< folderPath, p.filename >>)
        ext == toLowerCase(extname(p.filename))
        resourceType == getResourceType(ext)
    IN  [ url |-> KindUrl(BaseUrl(p.cloud_name), resourceType,
                          VersionSegment(p.versioning, p.version), filePath),
          error |-> "none" ]

UrlVersionings == { "undefined", "disabled", "enabled" }
UrlPublicIds == { NullStr, << >>, <<"d","o","c","s","/","r","e","p","o","r","t">>, <<"v","1","/","a">> }
UrlVersions == { NullStr, << >>, <<"1","2">> }
UrlFilenames ==
    { <<"r","e","p","o","r","t",".","p","d","f">>,
      <<"R",".","P","D","F">>,
      <<"a",".","J","P","G">>,
      <<"c","l","i","p",".","m","p","4">>,
      <<"n","o","t","e","s",".","t","x","t">>,
      <<"n","o","e","x","t">> }
UrlPrefixes == { << >>, <<"p">> }
UrlFormats == { NullStr, <<"j","p","g">>, <<"p","n","g">> }
UrlPages == { 0, 2 }

UrlParams ==
    [ cloud_name : { <<"c">> }, folder : { <<"m">> }, versioning : UrlVersionings,
      hasDoc : BOOLEAN, public_id : UrlPublicIds, version : UrlVersions,
      filename : UrlFilenames, prefix : UrlPrefixes, format : UrlFormats, pdf_page : UrlPages ]

\* the function returned by getGenerateURL (generateURL.ts) is called
GenerateUrlFromDoc ==
    /\ link.pc = "called"
    /\ link' = [ pc |-> "returned", variant |-> "generateURL.ts", params |-> link.params,
                 result |-> generateURL(link.params) ]
    /\ UNCHANGED << store, folder, calls, staticvars, docvars, pluginvars, gen, san, cls, race, multi, val >>

\* the function returned by getGenerateURL (part_001) is called
GenerateUrlFromPath ==
    /\ link.pc = "called"
    /\ link' = [ pc |-> "returned", variant |-> "part_001", params |-> link.params,
                 result |-> part001_generateURL(link.params) ]
    /\ UNCHANGED << store, folder, calls, staticvars, docvars, pluginvars, gen, san, cls, race, multi, val >>

UrlNext ==
    \/ GenerateUrlFromDoc
    \/ GenerateUrlFromPath

UrlInit ==
    /\ store = { }
    /\ folder = NullStr
    /\ sh = ShIdle
    /\ calls = << >>
    /\ response = NoResponse
    /\ cfg = DefaultCfg
    /\ data = NoData
    /\ up = UpIdle
    /\ del = DelIdle
    /\ uploads = 0
    /\ plugin = PluginIdle
    /\ client = NullStr
    /\ adapters = 0
    /\ gen = GenIdle
    /\ san = SanIdle
    /\ cls = ClsIdle
    /\ link \in [ pc : { "called" }, variant : { "none" }, params : UrlParams,
                  result : { [ url |-> NullStr, error |-> "none" ] } ]
    /\ race = RaceIdle
    /\ multi = MultiIdle
    /\ val = ValIdle

\* one call of generateURL on parameters drawn from UrlParams
SpecUrl == UrlInit /\ [][UrlNext]_vars

\* a URL was built
Built == link.pc = "returned" /\ link.result.error = "none"

\* versioning is enabled and a version token is given
HasVersionToken ==
    link.params.versioning = "enabled" /\ link.params.version \notin { NullStr, << >> }

\* the request is a paginated thumbnail: a PDF asked for as jpg, from the doc
IsThumbnailRequest ==
    /\ link.variant = "generateURL.ts"
    /\ toLowerCase(Extension(link.params.filename)) = <<".","p","d","f">>
    /\ link.params.format = <<"j","p","g">>

\* the asset's path at the end of the URL
UrlPath ==
    IF link.variant = "part_001"
    THEN PosixJoin(<< link.params.folder, link.params.prefix, link.params.filename >>)
    ELSE IF IsThumbnailRequest THEN link.params.public_id \o <<".","p","d","f">>
    ELSE link.params.public_id \o toLowerCase(Extension(link.params.filename))

\* the URL's segments after 'https://res.cloudinary.com/<cloud>/<kind>/upload'
AfterUpload ==
    LET segs == Split(link.result.url, <<"/">>)
    IN  SubSeq(segs, 7, Len(segs))

\* the segments between '/upload' and the asset's path
LeadSegments ==
    SubSeq(AfterUpload, 1, Len(AfterUpload) - Len(Split(UrlPath, <<"/">>)))

IsTransformation(seg) == Includes(seg, <<"q","_","a","u","t","o">>)

\* C21: the URL has a version segment 'v<token>' directly after '/upload' if
\* and only if versioning is enabled and a version token is given; the
\* version segment precedes the transformation parameters.
C21_VersionSegment ==
    Built =>
        /\ Split(link.result.url, <<"/">>)[6] = <<"u","p","l","o","a","d">>
        /\ SubSeq(AfterUpload, Len(LeadSegments) + 1, Len(AfterUpload)) = Split(UrlPath, <<"/">>)
        /\ IF HasVersionToken
           THEN /\ Len(LeadSegments) \in { 1, 2 }
                /\ LeadSegments[1] = <<"v">> \o link.params.version
                /\ Len(LeadSegments) = 2 => IsTransformation(LeadSegments[2])
           ELSE /\ Len(LeadSegments) \in { 0, 1 }
                /\ Len(LeadSegments) = 1 => IsTransformation(LeadSegments[1])

\* 'a.JPG' stored as 'docs/report', version 12, versioning enabled
C21_Witness ==
    /\ Built /\ HasVersionToken
    /\ link.variant = "generateURL.ts"
    /\ link.params.filename = <<"a",".","J","P","G">>
    /\ link.params.public_id = <<"d","o","c","s","/","r","e","p","o","r","t">>
    /\ link.result.url =
           BaseUrl(<<"c">>) \o <<"/","i","m","a","g","e","/","u","p","l","o","a","d","/","v","1","2",
                                 "/","f","_","a","u","t","o",",","q","_","a","u","t","o",
                                 "/","d","o","c","s","/","r","e","p","o","r","t",".","j","p","g">>

\* a PDF asked for in jpg format
AsksPdfAsJpg ==
    /\ toLowerCase(Extension(link.params.filename)) = <<".","p","d","f">>
    /\ link.params.format = <<"j","p","g">>

\* the kind of the filename's extension, whatever its letter case
KindOfFilename ==
    LET e == toLowerCase(Extension(link.params.filename))
    IN  IF e \in VIDEO_EXTENSIONS THEN <<"v","i","d","e","o">>
        ELSE IF e \in IMAGE_EXTENSIONS THEN <<"i","m","a","g","e">>
        ELSE IF e \in RAW_EXTENSIONS THEN <<"r","a","w">>
        ELSE <<"a","u","t","o">>

\* the segments between '/upload' and the path, without the version segment
TransformationSegments ==
    IF HasVersionToken THEN Tail(LeadSegments) ELSE LeadSegments

\* C22: for a request that is not a paginated thumbnail the kind segment is
\* the kind of the filename's extension, image and video get exactly
\* 'f_auto,q_auto', raw and auto get no transformation segment.
C22_KindAndTransformation ==
    (Built /\ ~AsksPdfAsJpg) =>
        /\ Split(link.result.url, <<"/">>)[5] = KindOfFilename
        /\ TransformationSegments =
               IF KindOfFilename \in { <<"i","m","a","g","e">>, <<"v","i","d","e","o">> }
               THEN << <<"f","_","a","u","t","o",",","q","_","a","u","t","o">> >>
               ELSE << >>

\* 'notes.txt' stored as 'docs/report' is served raw with no transformation
C22_Witness ==
    /\ Built /\ ~HasVersionToken
    /\ link.variant = "generateURL.ts"
    /\ link.params.filename = <<"n","o","t","e","s",".","t","x","t">>
    /\ link.params.public_id = <<"d","o","c","s","/","r","e","p","o","r","t">>
    /\ link.result.url =
           BaseUrl(<<"c">>) \o <<"/","r","a","w","/","u","p","l","o","a","d",
                                 "/","d","o","c","s","/","r","e","p","o","r","t",".","t","x","t">>

\* C23: a paginated-thumbnail request gives the transformation
\* 'pg_<page>,f_jpg,q_auto', page 1 when none is given, and a URL that ends in
\* the stored identifier followed by '.pdf'.
C23_ThumbnailUrl ==
    (Built /\ AsksPdfAsJpg /\ link.variant = "generateURL.ts") =>
        /\ TransformationSegments =
               << <<"p","g","_">>
                      \o ToDigits(IF link.params.pdf_page = 0 THEN 1 ELSE link.params.pdf_page)
                      \o <<",","f","_","j","p","g",",","q","_","a","u","t","o">> >>
        /\ EndsWith(link.result.url, <<"/">> \o link.params.public_id \o <<".","p","d","f">>)

\* public_id 'docs/report', page 2
C23_Witness ==
    /\ Built /\ AsksPdfAsJpg /\ ~HasVersionToken
    /\ link.variant = "generateURL.ts"
    /\ link.params.public_id = <<"d","o","c","s","/","r","e","p","o","r","t">>
    /\ link.params.pdf_page = 2
    /\ link.result.url =
           BaseUrl(<<"c">>) \o <<"/","i","m","a","g","e","/","u","p","l","o","a","d",
                                 "/","p","g","_","2",",","f","_","j","p","g",",","q","_","a","u","t","o",
                                 "/","d","o","c","s","/","r","e","p","o","r","t",".","p","d","f">>

(***************************************************************************)
(* validateFile (validation.ts) applied to a file.                         *)
(***************************************************************************)
ValidateDirs ==
    { << >>, <<".",".","/">>, <<"t","/",".",".","/">>, <<"a","/">>, <<"a","\\">>, <<".",".">> }
ValidateStems == { <<"x">>, <<"p","a","s","s","w","d">> }
ValidateExts ==
    { << >>, <<".","j","p","g">>, <<".","P","D","F">>, <<".","e","x","e">>,
      <<".","u","n","k","n","o","w","n">>, <<".","j","s">> }

\* filenames of the path-traversal test, and names put together from parts
ValidateFilenames ==
    { <<".",".","/",".",".","/",".",".","/","e","t","c","/","p","a","s","s","w","d">>,
      <<"t","e","s","t","/",".",".","/",".",".","/","s","e","c","r","e","t",".","t","x","t">>,
      <<"f","i","l","e","\\","w","i","t","h","\\","b","a","c","k","s","l","a","s","h","e","s",".","j","p","g">> }
        \cup { dir \o stem \o ext : dir \in ValidateDirs, stem \in ValidateStems, ext \in ValidateExts }

ValidateBuffers == { NoBuffer, 0, 1, MAX_FILE_SIZE + 1 }

\* validateFile(file)
ValidateFile ==
    /\ val.pc = "called"
    /\ val' = [ val EXCEPT !.pc = "returned", !.result = validateFile(val.file, MAX_FILE_SIZE) ]
    /\ UNCHANGED << store, folder, calls, staticvars, docvars, pluginvars, gen, san, cls,
                    link, race, multi >>

ValidateNext == ValidateFile

ValidateInit ==
    /\ store = { }
    /\ folder = NullStr
    /\ sh = ShIdle
    /\ calls = << >>
    /\ response = NoResponse
    /\ cfg = DefaultCfg
    /\ data = NoData
    /\ up = UpIdle
    /\ del = DelIdle
    /\ uploads = 0
    /\ plugin = PluginIdle
    /\ client = NullStr
    /\ adapters = 0
    /\ gen = GenIdle
    /\ san = SanIdle
    /\ cls = ClsIdle
    /\ link = UrlIdle
    /\ race = RaceIdle
    /\ multi = MultiIdle
    /\ val \in [ pc : { "called" }, file : [ filename : ValidateFilenames, buffer : ValidateBuffers ],
                 result : { "none" } ]

\* one call of validateFile on a file drawn from the sets above
SpecValidate == ValidateInit /\ [][ValidateNext]_vars

\* validateFile returned or threw, for a file with a buffer of allowed size
ValidatedWithContent ==
    val.pc = "returned" /\ val.file.buffer \in 1..MAX_FILE_SIZE

\* the filename contains '..', '/' or a backslash
HasTraversal ==
    \/ Includes(val.file.filename, <<".",".">>)
    \/ Includes(val.file.filename, <<"/">>)
    \/ Includes(val.file.filename, <<"\\">>)

\* C24: validateFile rejects every filename that contains '..', '/' or a
\* backslash with 'Filename contains invalid characters', whatever the rest
\* of the filename is.
C24_TraversalRejectedAsInvalid ==
    (ValidatedWithContent /\ HasTraversal) =>
        val.result = "Filename contains invalid characters"

\* every such filename is rejected, with one of three messages
C24_TraversalRejected ==
    (ValidatedWithContent /\ HasTraversal) =>
        val.result \in { "Filename contains invalid characters",
                         "File must have a valid extension",
                         "File type is not supported" }

\* '../../../etc/passwd' is rejected for its missing extension
C24_Witness ==
    /\ ValidatedWithContent
    /\ val.file.filename = <<".",".","/",".",".","/",".",".","/","e","t","c","/","p","a","s","s","w","d">>
    /\ val.result = "File must have a valid extension"

(***************************************************************************)
(* Two upload invocations in flight at once (getHandleUpload of            *)
(* handleUpload.ts and of part_002): each reads Date.now() and calls       *)
(* upload_stream in one synchronous run; the callbacks come later.         *)
(***************************************************************************)
Uploaders == { 1, 2 }

RaceFilenames == { <<"a",".","p","d","f">>, <<"B",".","J","P","G">> }
RaceVariants == { "handleUpload.ts", "part_002" }

\* publicID options under uniqueFilename
RaceOptions ==
    [ generatePublicID : { "none" }, enabled : { TRUE }, useFilename : BOOLEAN,
      uniqueFilename : { TRUE }, keepRawExtension : BOOLEAN ]

\* the identifier with the clock reading left out
RacePublicIdNoClock(variant, filename, folderPath, publicID, t) ==
    IF variant = "part_002"
    THEN part002_generatePublicID(filename, folderPath, UploadResourceType(filename), publicID, 1)
    ELSE generatePublicID(filename, folderPath, publicID, 1)

\* publicIdValue of the handler (handleUpload.ts:205, part_002:350)
RacePublicId(variant, filename, folderPath, publicID, t) ==
    IF variant = "part_002"
    THEN part002_generatePublicID(filename, folderPath, UploadResourceType(filename), publicID, t)
    ELSE generatePublicID(filename, folderPath, publicID, t)

UploaderIdle == [ pc |-> "idle", now |-> 0, public_id |-> NullStr ]

\* the millisecond clock advances
RaceTick ==
    /\ race.clock < MaxClock
    /\ race' = [ race EXCEPT !.clock = race.clock + 1 ]
    /\ UNCHANGED << store, folder, calls, staticvars, docvars, pluginvars, gen, san, cls,
                    link, multi, val >>

\* invocation i runs from its start to the call of upload_stream
RaceUploadStarts(i) ==
    /\ race.inv[i].pc = "idle"
    /\ race' = [ race EXCEPT
                   !.inv[i] = [ pc |-> "uploading", now |-> race.clock,
                                public_id |-> RacePublicId(race.variant, race.filename,
                                                           race.folderPath, race.publicID,
                                                           race.clock) ] ]
    /\ UNCHANGED << store, folder, calls, staticvars, docvars, pluginvars, gen, san, cls,
                    link, multi, val >>

\* the remote service stores the asset of invocation i under its public_id
RaceUploadCompletes(i) ==
    /\ race.inv[i].pc = "uploading"
    /\ race' = [ race EXCEPT !.inv[i].pc = "done",
                             !.written = Append(race.written, race.inv[i].public_id) ]
    /\ UNCHANGED << store, folder, calls, staticvars, docvars, pluginvars, gen, san, cls,
                    link, multi, val >>

RaceNext ==
    \/ RaceTick
    \/ \E i \in Uploaders : RaceUploadStarts(i)
    \/ \E i \in Uploaders : RaceUploadCompletes(i)

RaceInit ==
    /\ store = { }
    /\ folder = NullStr
    /\ sh = ShIdle
    /\ calls = << >>
    /\ response = NoResponse
    /\ cfg = DefaultCfg
    /\ data = NoData
    /\ up = UpIdle
    /\ del = DelIdle
    /\ uploads = 0
    /\ plugin = PluginIdle
    /\ client = NullStr
    /\ adapters = 0
    /\ gen = GenIdle
    /\ san = SanIdle
    /\ cls = ClsIdle
    /\ link = UrlIdle
    /\ race \in [ pc : { "running" }, clock : { 1 }, variant : RaceVariants,
                  filename : RaceFilenames, folderPath : { <<"m">> }, publicID : RaceOptions,
                  inv : { [ i \in Uploaders |-> UploaderIdle ] }, written : { << >> } ]
    /\ multi = MultiIdle
    /\ val = ValIdle

\* two uploads of one filename into one folder, in any interleaving
SpecRace == RaceInit /\ [][RaceNext]_vars

BothStarted == \A i \in Uploaders : race.inv[i].pc # "idle"

\* C25: under uniqueFilename two uploads of the same filename into the same
\* folder get distinct identifiers when their clock readings differ and the
\* identical identifier when both read the same millisecond.
C25_IdsDifferWithClock ==
    (race.pc = "running" /\ BothStarted) =>
        (race.inv[1].public_id = race.inv[2].public_id) <=> (race.inv[1].now = race.inv[2].now)

\* both uploads in flight at once were given the same key, and both wrote it
C25_Witness ==
    /\ race.pc = "running"
    /\ race.inv[1].pc = "done" /\ race.inv[2].pc = "done"
    /\ race.inv[1].now = race.inv[2].now
    /\ race.inv[1].public_id = race.inv[2].public_id
    /\ race.written = << race.inv[1].public_id, race.inv[1].public_id >>

\* the positions at which '/upload/' starts in the resolved delivery URL
UploadMarks ==
    { k \in 1..Len(sh.secure_url) :
        StartsAt(sh.secure_url, <<"/","u","p","l","o","a","d","/">>, k) }

\* the request asks for the thumbnail of a PDF
WantsPdfThumbnail ==
    sh.thumbnail /\ toLowerCase(Extension(sh.filename)) = <<".","p","d","f">>

\* the delivery URL with the page transformation after its one '/upload/'
WithPageTransformation ==
    LET k == CHOOSE k \in UploadMarks : TRUE
    IN  SubSeq(sh.secure_url, 1, k + 7)
            \o <<"p","g","_","1",",","f","_","j","p","g",",","q","_","a","u","t","o","/">>
            \o SubSeq(sh.secure_url, k + 8, Len(sh.secure_url))

\* C26: the URL that is fetched is the resolved delivery URL with
\* 'pg_1,f_jpg,q_auto/' inserted directly after '/upload/' when the filename
\* ends in .pdf (any case), the request carries thumbnail=true and the
\* delivery URL holds '/upload/' exactly once; otherwise it is the delivery
\* URL unchanged.
C26_FetchedUrl ==
    Len(Fetches) >= 1 =>
        Fetches[1].arg =
            IF WantsPdfThumbnail /\ Cardinality(UploadMarks) = 1
            THEN WithPageTransformation
            ELSE sh.secure_url

\* the thumbnail of 'a.PDF' is fetched with the page transformation
C26_Witness ==
    /\ Len(Fetches) = 1
    /\ sh.filename = <<"a",".","P","D","F">>
    /\ sh.thumbnail
    /\ sh.secure_url = SecureUrl(<<"m","/","a">>)
    /\ Fetches[1].arg =
           <<"h","t","t","p","s",":","/","/","r","/","c","/","u","p","l","o","a","d","/",
             "p","g","_","1",",","f","_","j","p","g",",","q","_","a","u","t","o","/",
             "v","1","/","m","/","a">>

\* the characters the variant lets through
AllowedBySanitizer(c) ==
    IF san.variant = "part_002" THEN IsPublicIdChar(c) ELSE IsLowerAlnum(c)

SanitizedOnce == san.pc \in { "once", "twice" }

\* lower-case, allowed characters or hyphens only, no hyphen run, no hyphen
\* at either end
WellFormedOutput(s) ==
    /\ \A i \in DOMAIN s : s[i] = LowerChar(s[i])
    /\ \A i \in DOMAIN s : AllowedBySanitizer(s[i]) \/ s[i] = "-"
    /\ \A i \in 1..(Len(s) - 1) : ~(s[i] = "-" /\ s[i + 1] = "-")
    /\ Len(s) > 0 => (s[1] # "-" /\ s[Len(s)] # "-")

\* C27: for every input the output of sanitize, in every variant, is
\* lower-case, holds only allowed characters and hyphens, has no two
\* consecutive hyphens and no hyphen at either end; an input made only of
\* disallowed characters gives the empty string.
C27_OutputWellFormed ==
    SanitizedOnce =>
        /\ WellFormedOutput(san.once)
        /\ (\A i \in DOMAIN san.input : ~AllowedBySanitizer(LowerChar(san.input[i])))
               => san.once = << >>

\* the same for the variants without a length cap
C27_UncappedOutputWellFormed ==
    (SanitizedOnce /\ san.variant # "sanitizeString") =>
        /\ WellFormedOutput(san.once)
        /\ (\A i \in DOMAIN san.input : ~AllowedBySanitizer(LowerChar(san.input[i])))
               => san.once = << >>

\* sanitizeString leaves a hyphen at the end of a capped result
C27_Witness ==
    /\ san.pc = "once"
    /\ san.variant = "sanitizeString"
    /\ Len(san.once) = SANITIZE_LIMIT
    /\ san.once[SANITIZE_LIMIT] = "-"

(***************************************************************************)
(* Two plugin instances in one process (index.ts cloudinaryStorageInternal):*)
(* each adapter configures the imported cloudinary object, and every       *)
(* handler is given that same object.                                      *)
(***************************************************************************)
MaxRequests == 2

Instances == { 1, 2 }

\* config.cloud_name of each instance
CloudOf(i) == IF i = 1 THEN <<"t","1">> ELSE <<"t","2">>

RequestOps == { "upload_stream", "destroy", "resource" }

\* the adapter of instance i is instantiated for its collection: index.ts:172-208
MultiAdapterCreated(i) ==
    /\ multi.pc = "running"
    /\ ~multi.ready[i]
    /\ multi' = [ multi EXCEPT !.ready[i] = TRUE, !.configured = CloudOf(i) ]
    /\ UNCHANGED << store, folder, calls, staticvars, docvars, pluginvars, gen, san, cls,
                    link, race, val >>

\* a handler of adapter i calls the remote client, which signs the request
\* with the credentials it is configured with at that moment
MultiRequest(i, op) ==
    /\ multi.pc = "running"
    /\ multi.ready[i]
    /\ Len(multi.requests) < MaxRequests
    /\ multi' = [ multi EXCEPT !.requests =
                      Append(multi.requests,
                             [ adapter |-> i, op |-> op, cloud_name |-> multi.configured ]) ]
    /\ UNCHANGED << store, folder, calls, staticvars, docvars, pluginvars, gen, san, cls,
                    link, race, val >>

MultiNext ==
    \/ \E i \in Instances : MultiAdapterCreated(i)
    \/ \E i \in Instances, op \in RequestOps : MultiRequest(i, op)

MultiInit ==
    /\ store = { }
    /\ folder = NullStr
    /\ sh = ShIdle
    /\ calls = << >>
    /\ response = NoResponse
    /\ cfg = DefaultCfg
    /\ data = NoData
    /\ up = UpIdle
    /\ del = DelIdle
    /\ uploads = 0
    /\ plugin = PluginIdle
    /\ client = NullStr
    /\ adapters = 0
    /\ gen = GenIdle
    /\ san = SanIdle
    /\ cls = ClsIdle
    /\ link = UrlIdle
    /\ race = RaceIdle
    /\ multi = [ pc |-> "running", ready |-> [ i \in Instances |-> FALSE ],
                 configured |-> NullStr, requests |-> << >> ]
    /\ val = ValIdle

\* two adapters with different credentials, created and used in any order
SpecMulti == MultiInit /\ [][MultiNext]_vars

\* C28: with two plugin instances of different credentials in one process,
\* every upload, delete and lookup issued by an adapter uses the credentials
\* that adapter was configured with.
C28_RequestsUseOwnCredentials ==
    multi.pc = "running" =>
        \A k \in 1..Len(multi.requests) :
            multi.requests[k].cloud_name = CloudOf(multi.requests[k].adapter)

\* adapter 1 uploads after adapter 2 was created: the request goes to cloud t2
C28_Witness ==
    /\ multi.pc = "running"
    /\ multi.ready[1] /\ multi.ready[2]
    /\ Len(multi.requests) = 1
    /\ multi.requests[1] = [ adapter |-> 1, op |-> "upload_stream", cloud_name |-> <<"t","2">> ]

\* validateFile accepts the filename, given a buffer of allowed size
AcceptedFilename ==
    validateFile([ filename |-> gen.filename, buffer |-> 1 ], MAX_FILE_SIZE) = "ok"

\* the identifiers the static handler looks up for the same filename under
\* the same folder and prefix
LookupCandidates ==
    LET attempts == Attempts(PosixJoin(<< gen.folderPath, gen.filename >>))
    IN  { attempts[k] : k \in DOMAIN attempts }

\* C29: for every accepted filename and every option combination without a
\* custom generator the identifier generated at upload is one of the two
\* identifiers the static handler looks up for that filename.
C29_UploadedIdIsLookedUp ==
    (Generated /\ gen.variant = "handleUpload.ts" /\ GenOpts.generatePublicID = "none"
               /\ AcceptedFilename) =>
        gen.id \in LookupCandidates

\* 'test.jpg' uploaded with the default options is stored as
\* 'my/folder/test_1'; the lookups are 'my/folder/test.jpg' and 'my/folder/test'
C29_Witness ==
    /\ Generated /\ gen.variant = "handleUpload.ts" /\ GenOpts.generatePublicID = "none"
    /\ AcceptedFilename
    /\ GenOpts.enabled /\ GenOpts.useFilename /\ GenOpts.uniqueFilename
    /\ gen.filename = <<"t","e","s","t",".","j","p","g">>
    /\ gen.now = 1
    /\ gen.id = <<"m","y","/","f","o","l","d","e","r","/","t","e","s","t","_","1">>
    /\ LookupCandidates = { <<"m","y","/","f","o","l","d","e","r","/","t","e","s","t",".","j","p","g">>,
                            <<"m","y","/","f","o","l","d","e","r","/","t","e","s","t">> }

(***************************************************************************)
(* The static handler when every external call it awaits settles.          *)
(***************************************************************************)
\* a step of the invocation in flight: an awaited call returns or throws,
\* or the handler goes on to its next call
StaticStep ==
    \/ PrefixThrows
    \/ PrefixResolved
    \/ LookupIssue
    \/ LookupFound
    \/ LookupFails
    \/ FetchIssue
    \/ FetchOk
    \/ FetchNotOk
    \/ FetchThrows
    \/ BlobRead
    \/ BlobThrows

\* SpecStatic with every awaited call eventually returning or throwing
SpecStaticFair == StaticInit /\ [][StaticNext]_vars /\ WF_vars(StaticStep)

InFlight == sh.pc \notin { "idle", "done" }

\* no answer while the invocation runs, one answer of a known status at its
\* end, and never more than two lookups and one fetch
OneResponseFewCalls ==
    /\ InFlight => response = NoResponse
    /\ sh.pc = "done" =>
           /\ response.status \in { 200, 304, 404, 500 }
           /\ ~response.thrown
    /\ Len(Lookups) <= 2
    /\ Len(Fetches) <= 1

\* C30: every static-handler invocation ends with exactly one response when
\* each external call eventually returns or throws: the status is 200, 304,
\* 404 or 500, the handler never throws, and it makes at most two
\* getResource calls and at most one upstream fetch.
C30_StaticHandlerTerminates ==
    /\ []OneResponseFewCalls
    /\ InFlight ~> (sh.pc = "done")

\* an invocation that used both lookups and the fetch and answered 200
C30_Witness ==
    /\ sh.pc = "done"
    /\ Len(Lookups) = 2
    /\ Len(Fetches) = 1
    /\ response.status = 200

====
